---- MODULE Spec2Model ----
(***************************************************************************)
(* LLM context-prep MCP server: the per-project configuration store        *)
(* (src/src/config.py) and the tool handlers of the two front-ends         *)
(* (src/src/mcp_server.py, src/src/mcp_server_fastmcp.py).                 *)
(*                                                                         *)
(* Paths are records [abs, parts] as pathlib sees them; an Optional value   *)
(* is a sequence of length 0 (None) or 1; a dict is a record whose domain  *)
(* is its key set.                                                         *)
(***************************************************************************)
EXTENDS Integers, Sequences, FiniteSets, TLC

VARIABLES cfgFile, fs, docs, dirs, clock, last, nOk, cfgFault

vars == <<cfgFile, fs, docs, dirs, clock, last, nOk, cfgFault>>

(***************************************************************************)
(* Bounds of the model.                                                    *)
(***************************************************************************)
\* Number of timestamped requests in one behaviour.
MaxClock == 2

(***************************************************************************)
(* Optional values.                                                        *)
(***************************************************************************)
None == <<>>

Some(x) == <<x>>

IsNone(o) == Len(o) = 0

Get(o) == o[1]

Min(a, b) == IF a <= b THEN a ELSE b

\* Python's s[:n]
Take(s, n) == SubSeq(s, 1, Min(Len(s), n))

Range(s) == {s[i] : i \in 1..Len(s)}

(***************************************************************************)
(* Paths (pathlib.Path, purely lexical) and the file system.               *)
(***************************************************************************)
P(abs, parts) == [abs |-> abs, parts |-> parts]

\* Path(input.project_path).resolve()
Root == P(TRUE, <<"proj">>)

\* a / b
PathJoin(a, b) == IF b.abs THEN b ELSE P(a.abs, a.parts \o b.parts)

\* p.is_relative_to(base): a lexical prefix test, ".." is not collapsed
IsRelativeTo(p, base) ==
    /\ p.abs = base.abs
    /\ Len(p.parts) >= Len(base.parts)
    /\ SubSeq(p.parts, 1, Len(base.parts)) = base.parts

\* p.relative_to(base), defined when IsRelativeTo(p, base)
RelativeTo(p, base) == P(FALSE, SubSeq(p.parts, Len(base.parts) + 1, Len(p.parts)))

\* What the operating system makes of the parts: ".." drops the part before.
RECURSIVE Collapse(_, _)
Collapse(parts, acc) ==
    IF parts = <<>> THEN acc
    ELSE IF Head(parts) = ".."
         THEN Collapse(Tail(parts), IF acc = <<>> THEN acc ELSE SubSeq(acc, 1, Len(acc) - 1))
         ELSE Collapse(Tail(parts), Append(acc, Head(parts)))

\* The file a path names once the operating system has followed it.
OsPath(p) == P(TRUE, Collapse(PathJoin(Root, p).parts, <<>>))

NotesDirName == ".llm_prep_notes"

MainPy == P(FALSE, <<"main.py">>)

BigBin == P(FALSE, <<"big.bin">>)

GonePy == P(FALSE, <<"gone.py">>)

NoteX == P(FALSE, <<NotesDirName, "x.md">>)

NoteY == P(FALSE, <<NotesDirName, "y.md">>)

\* Files over the per-file size ceiling.
TooLarge == {OsPath(BigBin)}

Readable(p) == OsPath(p) \in DOMAIN fs /\ OsPath(p) \notin TooLarge

(***************************************************************************)
(* The configuration store: src/src/config.py.                             *)
(***************************************************************************)
\* ProjectConfig.tree_ignore's default
DefaultTreeIgnore ==
    "bin|lib|*.log|logs|__pycache__|*.csv|*.pyc|.git|.env|*.db|node_modules|.venv|venv"

DefaultOutputDir == P(FALSE, <<"context_reports">>)

\* ProjectConfig(): the dataclass with its declared defaults
ProjectConfig ==
    [tree_ignore |-> DefaultTreeIgnore,
     output_dir |-> DefaultOutputDir,
     default_context_dumps |-> <<>>,
     recent_contexts |-> <<>>]

\* The attributes a fresh ProjectConfig instance has: the four dataclass fields.
ConfigFields == {"tree_ignore", "output_dir", "default_context_dumps", "recent_contexts"}

\* config.to_dict(): asdict() keeps the declared fields and nothing else
ToDict(config) == [f \in ConfigFields |-> config[f]]

\* from_dict builds its arguments first, and the fallback argument of
\* data.get('tree_ignore', cls.tree_ignore.__default__) is evaluated whatever
\* data holds: cls.tree_ignore is the default string, and a str has no
\* attribute __default__.
StrHasDefaultAttr == FALSE

\* ProjectConfig.from_dict(data): [raised, config]
FromDict(data) ==
    IF StrHasDefaultAttr
    THEN [raised |-> FALSE,
          config |-> [tree_ignore |-> data.tree_ignore,
                      output_dir |-> data.output_dir,
                      default_context_dumps |-> data.default_context_dumps,
                      recent_contexts |-> data.recent_contexts]]
    ELSE [raised |-> TRUE, config |-> ProjectConfig]

\* The content of .llm_prep_config.json.
NoFile == [kind |-> "absent"]

Garbage == [kind |-> "garbage"]

JsonFile(data) == [kind |-> "json", data |-> data]

\* load_project_config(project_path) reading `file`
LoadProjectConfig(file) ==
    IF file.kind = "json"
    THEN IF FromDict(file.data).raised THEN ProjectConfig ELSE FromDict(file.data).config
    ELSE ProjectConfig

\* How the write of the file goes: it is written, open() fails, or json.dump
\* fails after open(..., 'w') has truncated it.
WriteOutcomes == {"written", "open_fails", "dump_fails"}

\* save_project_config(project_path, config): the file afterwards. The
\* exception of a failed write is printed and swallowed.
SaveProjectConfig(file, config, outcome) ==
    CASE outcome = "written" -> JsonFile(ToDict(config))
      [] outcome = "open_fails" -> file
      [] OTHER -> Garbage

(***************************************************************************)
(* The document assembler LLMContextPrep (module llm_prep), as the         *)
(* handlers use it.                                                        *)
(***************************************************************************)
\* The ignore string a fresh LLMContextPrep carries until one is assigned.
PrepDefaultIgnore == "<LLMContextPrep default>"

\* LLMContextPrep(project_root=project_path)
LLMContextPrep ==
    [tree_ignore |-> PrepDefaultIgnore, files |-> <<>>, dumps |-> <<>>, notes |-> <<>>]

\* prep.add_file(path, note), for a file it can read
AddFile(prep, path, note) ==
    [prep EXCEPT !.files = Append(@, [path |-> path, note |-> note])]

\* prep.add_context_dump_from_file(file, title), for a file it can read
AddContextDump(prep, file, title) ==
    [prep EXCEPT !.dumps = Append(@, [file |-> file, title |-> title])]

\* prep.add_general_note(text)
AddGeneralNote(prep, text) == [prep EXCEPT !.notes = Append(@, text)]

\* prep.render(): the tree under the ignore string, then the files, the
\* dumps and the general notes, each in insertion order.
Render(prep) ==
    <<[section |-> "tree", ignore |-> prep.tree_ignore],
      [section |-> "files", items |-> prep.files],
      [section |-> "dumps", items |-> prep.dumps],
      [section |-> "notes", items |-> prep.notes]>>

\* A render() that hands over its general notes and forgets them.
RenderCallDraining(prep) ==
    [out |-> Render(prep), prep |-> [prep EXCEPT !.notes = <<>>]]

\* A call of prep.render(): the text it returns and the assembler it leaves.
RenderCall(prep) == [out |-> Render(prep), prep |-> prep]

(***************************************************************************)
(* Helpers shared by the handlers.                                         *)
(***************************************************************************)
\* d.get(k)
DictGet(d, k) == IF k \in DOMAIN d THEN Some(d[k]) ELSE None

\* a or b, on Optional strings: None is falsy
OrElse(a, b) == IF IsNone(a) THEN b ELSE a

\* f"context_{timestamp}.md"
TimestampName(now) == P(FALSE, <<"context_" \o ToString(now) \o ".md">>)

\* The parent directory of a path.
Parent(p) == P(p.abs, SubSeq(p.parts, 1, Len(p.parts) - 1))

\* config.recent_contexts.insert(0, entry); config.recent_contexts[:20]
HistoryCap == 20

RecordGeneration(config, entry) ==
    [config EXCEPT !.recent_contexts = Take(<<entry>> \o @, HistoryCap)]

RECURSIVE FoldDumps(_, _)
FoldDumps(prep, ds) ==
    IF ds = <<>> THEN prep
    ELSE FoldDumps(AddContextDump(prep, Head(ds).file, Head(ds).title), Tail(ds))

RECURSIVE FoldFiles(_, _)
FoldFiles(prep, fl) ==
    IF fl = <<>> THEN prep
    ELSE FoldFiles(AddFile(prep, Head(fl).path, Head(fl).note), Tail(fl))

RECURSIVE FoldNotes(_, _)
FoldNotes(prep, ns) ==
    IF ns = <<>> THEN prep ELSE FoldNotes(AddGeneralNote(prep, Head(ns)), Tail(ns))

(***************************************************************************)
(* The front-end boundary: the try / except Exception around the body of   *)
(* each tool, and around the dispatch in call_tool.                        *)
(***************************************************************************)
\* The tools whose whole body is inside "try: ... except Exception as e:
\* return <error message>".
GuardedTools ==
    {"prepare_context", "create_debug_notes", "set_project_config",
     "list_recent_contexts", "clean_temp_notes", "get_tree_ignore",
     "update_tree_ignore", "analyze_project_structure", "call_tool"}

\* Whether an exception raised in the body of `tool` reaches the caller.
Escaped(tool, raised) == raised /\ tool \notin GuardedTools

(***************************************************************************)
(* prepare_context of src/src/mcp_server.py (LLMPrepMCPServer).            *)
(***************************************************************************)
\* if tree_ignore is None: tree_ignore = config.tree_ignore
EffectiveIgnore(reqIgnore, config) ==
    IF IsNone(reqIgnore) THEN config.tree_ignore ELSE Get(reqIgnore)

\* prep = LLMContextPrep(...); if tree_ignore: prep.tree_ignore = tree_ignore
PrepWithIgnore(tree_ignore) ==
    IF tree_ignore # "" THEN [LLMContextPrep EXCEPT !.tree_ignore = tree_ignore]
    ELSE LLMContextPrep

\* The defaults the loop over config.default_context_dumps adds: those with
\* not any(d.get("file") == dump["file"] for d in (context_dumps or []))
DefaultDumpsToAdd(context_dumps, defaults) ==
    SelectSeq(defaults,
              LAMBDA dump : ~\E i \in 1..Len(context_dumps) :
                               DictGet(context_dumps[i], "file") = Some(dump.file))

\* A handler that tests dry_run nowhere: it goes on to write the document.
StageOfWithoutDryRun(addOk, dryRun, writeOk, outPath) ==
    CASE ~addOk -> "add_failed"
      [] addOk /\ ~writeOk -> "write_failed"
      [] addOk /\ writeOk /\ ~IsRelativeTo(outPath, Root) -> "after_write_failed"
      [] OTHER -> "ok"

\* The stage a request ends in, given whether everything could be added,
\* whether prep.save() wrote the document, and whether
\* output_path.relative_to(project_path) is defined.
StageOf(addOk, dryRun, writeOk, outPath) ==
    CASE ~addOk -> "add_failed"
      [] addOk /\ dryRun -> "dry_run"
      [] addOk /\ ~dryRun /\ ~writeOk -> "write_failed"
      [] addOk /\ ~dryRun /\ writeOk /\ ~IsRelativeTo(outPath, Root) -> "after_write_failed"
      [] OTHER -> "ok"

\* The body of LLMPrepMCPServer.prepare_context up to the update of the
\* configuration, on the configuration file `file` at time `now`.
PrepareContextRun(file, req, now, writeOk) ==
    LET config == LoadProjectConfig(file)
        tree_ignore == EffectiveIgnore(req.tree_ignore, config)
        filesOk == \A i \in 1..Len(req.files) :
                      "path" \in DOMAIN req.files[i] /\ Readable(req.files[i].path)
        explicitOk == \A i \in 1..Len(req.context_dumps) :
                         /\ "file" \in DOMAIN req.context_dumps[i]
                         /\ Readable(req.context_dumps[i].file)
        defaults == DefaultDumpsToAdd(req.context_dumps, config.default_context_dumps)
        defaultsOk == \A i \in 1..Len(defaults) : Readable(defaults[i].file)
        addOk == filesOk /\ explicitOk /\ defaultsOk
        withFiles == FoldFiles(PrepWithIgnore(tree_ignore),
                               [i \in 1..Len(req.files) |->
                                  [path |-> req.files[i].path,
                                   note |-> DictGet(req.files[i], "note")]])
        toDumps(ds) == [i \in 1..Len(ds) |->
                          [file |-> ds[i].file, title |-> DictGet(ds[i], "title")]]
        withDumps == FoldDumps(FoldDumps(withFiles, toDumps(req.context_dumps)),
                               toDumps(defaults))
        prep == FoldNotes(withDumps,
                          [i \in 1..Len(req.general_notes) |-> [text |-> req.general_notes[i]]])
        outDir == PathJoin(Root, config.output_dir)
        outName == IF IsNone(req.output_name) THEN TimestampName(now)
                   ELSE Get(req.output_name)
        outPath == PathJoin(outDir, outName)
        stage == StageOf(addOk, FALSE, writeOk, outPath)
        entry == [timestamp |-> now,
                  output |-> RelativeTo(outPath, Root),
                  description |-> <<Len(req.files), Len(req.context_dumps)>>]
    IN  [stage |-> stage,
         config |-> IF stage = "ok" THEN RecordGeneration(config, entry) ELSE config,
         doc |-> IF addOk THEN Render(prep) ELSE <<>>,
         outDir |-> outDir,
         outPath |-> outPath,
         manifest |-> <<>>]

(***************************************************************************)
(* The effect of a prepare_context request on the project.                 *)
(***************************************************************************)
\* The document files after the request: prep.save(str(output_path)).
DocsAfter(stage, outPath, now) ==
    IF stage \in {"after_write_failed", "ok"}
    THEN [p \in DOMAIN docs \cup {OsPath(outPath)} |->
            IF p = OsPath(outPath) THEN [written_at |-> now] ELSE docs[p]]
    ELSE docs

\* The directories after the request: output_dir.mkdir(parents=True,
\* exist_ok=True), and the parent directory that save() creates.
DirsAfter(stage, outDir, outPath) ==
    CASE stage \in {"add_failed", "dry_run"} -> dirs
      [] stage = "write_failed" -> dirs \cup {OsPath(outDir)}
      [] OTHER -> dirs \cup {OsPath(outDir), OsPath(Parent(outPath))}

\* A handler that saves the configuration before it writes the document: the
\* file is rewritten however the request ends.
ConfigFileAfterEarlySave(stage, config, cfgWrite) ==
    SaveProjectConfig(cfgFile, config, cfgWrite)

\* The configuration file after the request: save_project_config is reached
\* only past the write and the computation of the history entry.
ConfigFileAfter(stage, config, cfgWrite) ==
    IF stage = "ok" THEN SaveProjectConfig(cfgFile, config, cfgWrite) ELSE cfgFile

\* The stages that end in the except clause.
RaisingStages == {"add_failed", "write_failed", "after_write_failed"}

\* What the caller is told.
ResultOf(stage) ==
    CASE stage = "ok" -> "saved"
      [] stage = "dry_run" -> "preview"
      [] OTHER -> "error"

ApplyPrepare(server, req, o, cfgWrite) ==
    /\ clock' = clock + 1
    /\ docs' = DocsAfter(o.stage, o.outPath, clock + 1)
    /\ dirs' = DirsAfter(o.stage, o.outDir, o.outPath)
    /\ cfgFile' = ConfigFileAfter(o.stage, o.config, cfgWrite)
    /\ nOk' = IF o.stage = "ok" THEN nOk + 1 ELSE nOk
    /\ cfgFault' = (cfgFault \/ (o.stage = "ok" /\ cfgWrite # "written"))
    /\ last' = [op |-> "prepare_context", server |-> server, req |-> req,
                stage |-> o.stage, result |-> ResultOf(o.stage),
                raised |-> o.stage \in RaisingStages,
                escaped |-> Escaped("prepare_context", o.stage \in RaisingStages),
                doc |-> o.doc,
                manifest |-> o.manifest, outPath |-> o.outPath,
                cfgBefore |-> cfgFile, docsBefore |-> docs, dirsBefore |-> dirs]
    /\ UNCHANGED fs

PrepareContext(req, writeOk, cfgWrite) ==
    /\ clock < MaxClock
    /\ \E o \in {PrepareContextRun(cfgFile, req, clock + 1, writeOk)} :
          ApplyPrepare("mcp_server", req, o, cfgWrite)

(***************************************************************************)
(* prepare_context of src/src/mcp_server_fastmcp.py.                       *)
(***************************************************************************)
\* A typed FileSpec / DumpSpec, and a plain dict, as the request carries them.
FileSpec(path, note) == [cls |-> "FileSpec", path |-> path, note |-> note]

DumpSpec(file, title) == [cls |-> "DumpSpec", file |-> file, title |-> title]

Dict(items) == [cls |-> "dict", items |-> items]

\* p.exists()
Exists(p) == OsPath(p) \in (DOMAIN fs \cup DOMAIN docs \cup dirs)

\* A _fix_path that never asks whether the re-rooted path exists.
FixPathAlwaysRerooted(p) ==
    IF p.abs
    THEN IF IsRelativeTo(p, Root) THEN p ELSE PathJoin(Root, P(FALSE, p.parts))
    ELSE PathJoin(Root, p)

\* _fix_path(project_path, p)
FixPath(p) ==
    IF p.abs
    THEN IF IsRelativeTo(p, Root) THEN p
         ELSE LET maybe == PathJoin(Root, P(FALSE, p.parts))
              IN  IF Exists(maybe) THEN maybe ELSE p
    ELSE PathJoin(Root, p)

\* _coerce_file_spec(d): [path, note], path None when the dict names none
CoerceFileSpec(x) ==
    IF x.cls = "FileSpec" THEN [path |-> Some(x.path), note |-> x.note]
    ELSE [path |-> OrElse(DictGet(x.items, "path"), DictGet(x.items, "file")),
          note |-> OrElse(DictGet(x.items, "note"),
                          OrElse(DictGet(x.items, "notes"),
                                 OrElse(DictGet(x.items, "comment"),
                                        DictGet(x.items, "description"))))]

\* _coerce_dump_spec(d): [file, title], file None when the dict names none
CoerceDumpSpec(x) ==
    IF x.cls = "DumpSpec" THEN [file |-> Some(x.file), title |-> x.title]
    ELSE [file |-> OrElse(DictGet(x.items, "file"), DictGet(x.items, "path")),
          title |-> OrElse(DictGet(x.items, "title"),
                           OrElse(DictGet(x.items, "name"),
                                  OrElse(DictGet(x.items, "notes"),
                                         DictGet(x.items, "description"))))]

\* d.file == dump["file"] if hasattr(d, 'file') else d.get("file") == dump["file"],
\* on the request's own entries (before _coerce_dump_spec)
NamesDump(x, dump) ==
    IF x.cls = "DumpSpec" THEN x.file = dump.file
    ELSE DictGet(x.items, "file") = Some(dump.file)

\* The defaults the loop over config.default_context_dumps adds.
FastDefaultDumpsToAdd(context_dumps, defaults) ==
    SelectSeq(defaults,
              LAMBDA dump : ~\E i \in 1..Len(context_dumps) :
                               NamesDump(context_dumps[i], dump))

\* str(p.relative_to(project_path) if p.is_relative_to(project_path) else p)
ShownPath(p) == IF IsRelativeTo(p, Root) THEN RelativeTo(p, Root) ELSE p

\* A loop over general_note_files with no except clause that skips.
NoteFilesUnfiltered(paths) == [i \in 1..Len(paths) |-> FixPath(paths[i])]

\* The general_note_files that read_text() can read; the others are logged
\* and skipped.
ReadableNoteFiles(paths) ==
    SelectSeq([i \in 1..Len(paths) |-> FixPath(paths[i])],
              LAMBDA p : OsPath(p) \in DOMAIN fs)

\* tree_ignore = input.tree_ignore or config.tree_ignore
FastEffectiveIgnore(reqIgnore, config) ==
    IF IsNone(reqIgnore) \/ Get(reqIgnore) = "" THEN config.tree_ignore ELSE Get(reqIgnore)

\* The body of prepare_context up to the update of the configuration.
FastPrepareContextRun(file, req, now, writeOk) ==
    LET config == LoadProjectConfig(file)
        tree_ignore == FastEffectiveIgnore(req.tree_ignore, config)
        fileSpecs == [i \in 1..Len(req.files) |-> CoerceFileSpec(req.files[i])]
        filesOk == \A i \in 1..Len(fileSpecs) :
                      /\ ~IsNone(fileSpecs[i].path)
                      /\ Readable(FixPath(Get(fileSpecs[i].path)))
        dumpSpecs == [i \in 1..Len(req.context_dumps) |->
                        CoerceDumpSpec(req.context_dumps[i])]
        explicitOk == \A i \in 1..Len(dumpSpecs) :
                         /\ ~IsNone(dumpSpecs[i].file)
                         /\ Readable(Get(dumpSpecs[i].file))
        defaults == FastDefaultDumpsToAdd(req.context_dumps, config.default_context_dumps)
        defaultsOk == \A i \in 1..Len(defaults) : Readable(defaults[i].file)
        addOk == filesOk /\ explicitOk /\ defaultsOk
        withFiles == FoldFiles(PrepWithIgnore(tree_ignore),
                               [i \in 1..Len(fileSpecs) |->
                                  [path |-> FixPath(Get(fileSpecs[i].path)),
                                   note |-> fileSpecs[i].note]])
        explicit == [i \in 1..Len(dumpSpecs) |->
                       [file |-> Get(dumpSpecs[i].file), title |-> dumpSpecs[i].title]]
        fromConfig == [i \in 1..Len(defaults) |->
                         [file |-> defaults[i].file, title |-> DictGet(defaults[i], "title")]]
        withDumps == FoldDumps(FoldDumps(withFiles, explicit), fromConfig)
        noteFiles == ReadableNoteFiles(req.general_note_files)
        prep == FoldNotes(FoldNotes(withDumps,
                                    [i \in 1..Len(req.general_notes) |->
                                       [text |-> req.general_notes[i]]]),
                          [i \in 1..Len(noteFiles) |->
                             [header |-> noteFiles[i].parts[Len(noteFiles[i].parts)],
                              content_of |-> OsPath(noteFiles[i])]])
        included_files == [i \in 1..Len(fileSpecs) |->
                             ShownPath(FixPath(Get(fileSpecs[i].path)))]
        included_dumps == [i \in 1..Len(explicit \o fromConfig) |->
                             (explicit \o fromConfig)[i].file]
        included_note_files == [i \in 1..Len(noteFiles) |-> ShownPath(noteFiles[i])]
        outDir == PathJoin(Root, config.output_dir)
        outName == IF IsNone(req.output_name) THEN TimestampName(now)
                   ELSE Get(req.output_name)
        outPath == PathJoin(outDir, outName)
        stage == StageOf(addOk, req.dry_run, writeOk, outPath)
        entry == [timestamp |-> now,
                  output |-> RelativeTo(outPath, Root),
                  description |-> <<Len(included_files), Len(included_dumps)>>]
    IN  [stage |-> stage,
         config |-> IF stage = "ok" THEN RecordGeneration(config, entry) ELSE config,
         doc |-> IF addOk THEN Render(prep) ELSE <<>>,
         outDir |-> outDir,
         outPath |-> outPath,
         manifest |-> IF addOk
                      THEN <<included_files, included_dumps, included_note_files>>
                      ELSE <<>>]

FastPrepareContext(req, writeOk, cfgWrite) ==
    /\ clock < MaxClock
    /\ \E o \in {FastPrepareContextRun(cfgFile, req, clock + 1, writeOk)} :
          ApplyPrepare("fastmcp", req, o, cfgWrite)

(***************************************************************************)
(* The pattern utilities the fastmcp front-end imports from config         *)
(* (normalize_patterns, split_patterns, join_patterns,                     *)
(* validate_ignore_patterns, suggest_patterns_for_project).                *)
(***************************************************************************)
CharAt(s, i) == SubSeq(s, i, i)

Uppers == "ABCDEFGHIJKLMNOPQRSTUVWXYZ"

Lowers == "abcdefghijklmnopqrstuvwxyz"

\* c.lower() for each upper-case letter c
LowerOf ==
    [c \in {CharAt(Uppers, i) : i \in 1..Len(Uppers)} |->
        CharAt(Lowers, CHOOSE i \in 1..Len(Uppers) : CharAt(Uppers, i) = c)]

LowerChar(c) == IF c \in DOMAIN LowerOf THEN LowerOf[c] ELSE c

\* s.lower()
RECURSIVE Lower(_)
Lower(s) == IF s = "" THEN "" ELSE LowerChar(Head(s)) \o Lower(Tail(s))

\* s.strip()
RECURSIVE Strip(_)
Strip(s) ==
    IF s = "" THEN ""
    ELSE IF Head(s) = " " THEN Strip(Tail(s))
    ELSE IF CharAt(s, Len(s)) = " " THEN Strip(SubSeq(s, 1, Len(s) - 1))
    ELSE s

\* s.split("|"), from position `from`, the current piece starting at `start`
RECURSIVE SplitFrom(_, _, _)
SplitFrom(s, start, from) ==
    IF from > Len(s) THEN <<SubSeq(s, start, Len(s))>>
    ELSE IF CharAt(s, from) = "|"
         THEN <<SubSeq(s, start, from - 1)>> \o SplitFrom(s, from + 1, from + 1)
         ELSE SplitFrom(s, start, from + 1)

SplitPipe(s) == SplitFrom(s, 1, 1)

\* ",".join(patterns): a join on another delimiter than split's
RECURSIVE JoinComma(_)
JoinComma(patterns) ==
    IF patterns = <<>> THEN ""
    ELSE IF Len(patterns) = 1 THEN patterns[1]
    ELSE patterns[1] \o "," \o JoinComma(Tail(patterns))

\* "|".join(patterns)
RECURSIVE JoinPipe(_)
JoinPipe(patterns) ==
    IF patterns = <<>> THEN ""
    ELSE IF Len(patterns) = 1 THEN patterns[1]
    ELSE patterns[1] \o "|" \o JoinPipe(Tail(patterns))

\* {p.lower() for p in patterns}
LowerSet(patterns) == {Lower(patterns[i]) : i \in 1..Len(patterns)}

\* normalize_patterns(patterns): trimmed, empties dropped, the first of the
\* patterns that are equal ignoring case kept, in order
RECURSIVE NormalizeInto(_, _, _)
NormalizeInto(patterns, acc, seen) ==
    IF patterns = <<>> THEN acc
    ELSE LET p == Strip(Head(patterns))
             key == Lower(p)
         IN  IF p = "" \/ key \in seen
             THEN NormalizeInto(Tail(patterns), acc, seen)
             ELSE NormalizeInto(Tail(patterns), Append(acc, p), seen \cup {key})

normalize_patterns(patterns) == NormalizeInto(patterns, <<>>, {})

\* split_patterns(s): split_patterns("") is the empty list
split_patterns(s) == IF s = "" THEN <<>> ELSE normalize_patterns(SplitPipe(s))

\* join_patterns(patterns)
join_patterns(patterns) == JoinPipe(normalize_patterns(patterns))

\* The longest serialized pattern string validate_ignore_patterns accepts.
MaxIgnoreLength == 1000

\* A pattern with a path separator is unsafe.
UnsafePattern(p) == \E i \in 1..Len(p) : CharAt(p, i) = "/"

\* validate_ignore_patterns(patterns): [errors, joined]
validate_ignore_patterns(patterns) ==
    LET joined == join_patterns(patterns)
    IN  [errors |-> \/ Len(joined) > MaxIgnoreLength
                    \/ \E i \in 1..Len(patterns) : UnsafePattern(patterns[i]),
         joined |-> joined]

(***************************************************************************)
(* Time and directories.                                                   *)
(***************************************************************************)
\* older_than_days * 86400
SecondsPerDay == 86400

\* datetime.now().timestamp() at request number c: ten days and c seconds.
NowAt(c) == 10 * SecondsPerDay + c

\* project_path / ".llm_prep_notes"
NotesDir == P(FALSE, <<NotesDirName>>)

\* Whether the operating-system path d is a directory: one that was made, or
\* one that holds a file.
IsDir(d) ==
    \/ d \in dirs
    \/ \E q \in DOMAIN fs \cup DOMAIN docs :
          /\ Len(q.parts) > Len(d.parts)
          /\ SubSeq(q.parts, 1, Len(d.parts)) = d.parts

\* name.endswith('.md')
EndsWithMd(name) == Len(name) >= 3 /\ SubSeq(name, Len(name) - 2, Len(name)) = ".md"

(***************************************************************************)
(* Project classification: detect_project_type and suggest_ignore_patterns *)
(* of src/src/config.py.                                                   *)
(***************************************************************************)
\* The names directly under project_path: what (project_path / name).exists()
\* and project_path.glob(pattern) see. A path that is no directory has none.
RootEntries(project_path) ==
    LET root == OsPath(project_path).parts
    IN  {q.parts[Len(root) + 1] :
            q \in {r \in DOMAIN fs \cup DOMAIN docs \cup dirs :
                      /\ Len(r.parts) > Len(root)
                      /\ SubSeq(r.parts, 1, Len(root)) = root}}

\* indicators, in the order the dict is written
Indicators ==
    <<[lang |-> "python",
       files |-> <<"requirements.txt", "setup.py", "pyproject.toml", "Pipfile">>],
      [lang |-> "javascript", files |-> <<"package.json", "yarn.lock", "package-lock.json">>],
      [lang |-> "rust", files |-> <<"Cargo.toml">>],
      [lang |-> "go", files |-> <<"go.mod">>],
      [lang |-> "java", files |-> <<"pom.xml", "build.gradle">>],
      [lang |-> "dotnet", files |-> <<"*.csproj", "*.sln">>],
      [lang |-> "ruby", files |-> <<"Gemfile">>],
      [lang |-> "php", files |-> <<"composer.json">>]>>

\* Whether file_pattern finds something among the entries: a glob of one
\* level when it holds '*' (a name that ends with the rest of the pattern),
\* an existence test otherwise.
MarkerFound(file_pattern, entries) ==
    LET EndsWith(name, suffix) ==
            /\ Len(name) >= Len(suffix)
            /\ SubSeq(name, Len(name) - Len(suffix) + 1, Len(name)) = suffix
    IN  IF CharAt(file_pattern, 1) = "*"
        THEN \E name \in entries : EndsWith(name, SubSeq(file_pattern, 2, Len(file_pattern)))
        ELSE file_pattern \in entries

\* A loop that keeps going after a match: the last type with a marker wins.
RECURSIVE LastIndicated(_, _)
LastIndicated(table, entries) ==
    IF table = <<>> THEN "general"
    ELSE LET n == Len(table)
         IN  IF \E i \in 1..Len(table[n].files) : MarkerFound(table[n].files[i], entries)
             THEN table[n].lang
             ELSE LastIndicated(SubSeq(table, 1, n - 1), entries)

\* for lang, files in indicators.items(): ... return lang; return 'general'
RECURSIVE FirstIndicated(_, _)
FirstIndicated(table, entries) ==
    IF table = <<>> THEN "general"
    ELSE IF \E i \in 1..Len(Head(table).files) : MarkerFound(Head(table).files[i], entries)
         THEN Head(table).lang
         ELSE FirstIndicated(Tail(table), entries)

\* detect_project_type(project_path)
detect_project_type(project_path) == FirstIndicated(Indicators, RootEntries(project_path))

\* get_default_ignore_patterns(): list(set(all_patterns)), a list in no fixed
\* order; the model keeps the set.
DefaultIgnorePatterns ==
    {"__pycache__", "*.pyc", "*.pyo", "*.pyd", ".Python", "pip-log.txt",
     "pip-delete-this-directory.txt", ".venv", "venv", "ENV", "env", ".pytest_cache",
     ".coverage", "htmlcov", ".mypy_cache", ".ruff_cache", "*.egg-info", "dist", "build",
     ".ipynb_checkpoints",
     "node_modules", "bower_components", ".npm", ".yarn", ".pnp.js", "coverage",
     ".nyc_output", ".next", ".nuxt", ".cache", "out",
     ".git", ".svn", ".hg", ".DS_Store", "Thumbs.db", "*.log", "logs", "*.sqlite", "*.db",
     ".env", ".env.*", ".idea", ".vscode", ".vs", "*.swp", "*.swo", "*~", ".terraform",
     ".serverless"}

\* get_default_ignore_patterns() as a list: list(set(all_patterns)) lists the
\* set in the order of the interpreter's string hashes, which are salted
\* anew in every server process. Two of the orders a process can produce:
\* the order of the source text, and its reverse.
get_default_ignore_patterns(seed) ==
    LET listed == <<"__pycache__", "*.pyc", "*.pyo", "*.pyd", ".Python", "pip-log.txt",
                    "pip-delete-this-directory.txt", ".venv", "venv", "ENV", "env",
                    ".pytest_cache", ".coverage", "htmlcov", ".mypy_cache", ".ruff_cache",
                    "*.egg-info", "dist", "build", ".ipynb_checkpoints",
                    "node_modules", "bower_components", ".npm", ".yarn", ".pnp.js",
                    "coverage", ".nyc_output", ".next", ".nuxt", ".cache", "out",
                    ".git", ".svn", ".hg", ".DS_Store", "Thumbs.db", "*.log", "logs",
                    "*.sqlite", "*.db", ".env", ".env.*", ".idea", ".vscode", ".vs",
                    "*.swp", "*.swo", "*~", ".terraform", ".serverless">>
    IN  IF seed = 0 THEN listed
        ELSE [i \in 1..Len(listed) |-> listed[Len(listed) + 1 - i]]

\* patterns[:15]
SuggestLimit == 15

\* suggest_ignore_patterns(project_path) in a process of hash seed `seed`:
\* the patterns of the detected type first, then the others of the default
\* list in the order it lists them, cut to 15 and joined with '|'.
suggest_ignore_patterns(project_path, seed) ==
    LET \* python_specific / js_specific
        SpecificPatterns(project_type) ==
            CASE project_type = "python" ->
                   <<"__pycache__", "*.pyc", ".venv", "venv", ".pytest_cache", ".mypy_cache">>
              [] project_type = "javascript" ->
                   <<"node_modules", ".next", ".nuxt", "dist", "build", "coverage">>
              [] OTHER -> <<>>
        leading == SpecificPatterns(detect_project_type(project_path))
        \* [p for p in patterns if p not in python_specific]
        NotLeading(p) == p \notin Range(leading)
        patterns == leading \o SelectSeq(get_default_ignore_patterns(seed), NotLeading)
    IN  [project_type |-> detect_project_type(project_path),
         leading |-> leading,
         others_from |-> DefaultIgnorePatterns \ Range(leading),
         others_count |-> SuggestLimit - Len(leading),
         patterns |-> Take(patterns, SuggestLimit),
         joined |-> JoinPipe(Take(patterns, SuggestLimit))]

(***************************************************************************)
(* The analyzer the fastmcp front-end imports from config (analyze_project *)
(* and suggest_patterns_for_project), and the tools that show its result.  *)
(***************************************************************************)
\* "Large directories (>100MB)"
BigDirMegabytes == 100

\* analyze_project(project_path): fails on a root that is no directory;
\* big_dirs are the directories of the root whose files sum to more than the
\* threshold (sizes in megabytes, a file with no size has none to speak of),
\* listed largest first.
analyze_project(project_path) ==
    LET SizeOf(q) == IF "size" \in DOMAIN fs[q] THEN fs[q].size ELSE 0
        RECURSIVE SumSizes(_)
        SumSizes(files) ==
            IF files = {} THEN 0
            ELSE LET q == CHOOSE x \in files : TRUE
                 IN  SizeOf(q) + SumSizes(files \ {q})
        FilesUnder(name) ==
            LET dir == OsPath(project_path).parts \o <<name>>
            IN  {q \in DOMAIN fs : Len(q.parts) > Len(dir) /\ SubSeq(q.parts, 1, Len(dir)) = dir}
        BigDirs == {name \in RootEntries(project_path) :
                      SumSizes(FilesUnder(name)) > BigDirMegabytes}
    IN  IF ~IsDir(OsPath(project_path))
        THEN [raised |-> TRUE]
        ELSE [raised |-> FALSE,
              project_type |-> detect_project_type(project_path),
              big_dirs |-> SelectSeq(<<"node_modules", "dist", ".venv">>,
                                     LAMBDA n : n \in BigDirs)]

\* Version control and secrets; the ecosystem table; general hygiene.
AlwaysCritical == <<".git", ".env">>

EcosystemPatterns(project_type) ==
    CASE project_type = "python" -> <<"__pycache__", "*.pyc", ".venv">>
      [] project_type = "javascript" -> <<"node_modules", "dist">>
      [] project_type = "rust" -> <<"target">>
      [] OTHER -> <<>>

HygienePatterns == <<".DS_Store", "*.swp", "dist">>

\* Tiers in which a later tier keeps what an earlier one has claimed.
TiersOverlapping(project_type, big_dirs) ==
    [critical |-> AlwaysCritical \o big_dirs,
     recommended |-> EcosystemPatterns(project_type),
     optional |-> HygienePatterns]

\* The three tiers: the first tier that claims a pattern keeps it.
Tiers(project_type, big_dirs) ==
    LET critical == AlwaysCritical \o SelectSeq(big_dirs, LAMBDA d : d \notin Range(AlwaysCritical))
        recommended == SelectSeq(EcosystemPatterns(project_type),
                                 LAMBDA x : x \notin Range(critical))
        optional == SelectSeq(HygienePatterns,
                              LAMBDA x : x \notin Range(critical) \cup Range(recommended))
    IN  [critical |-> critical, recommended |-> recommended, optional |-> optional]

\* suggest_patterns_for_project(project_path), on a root that can be analyzed
suggest_patterns_for_project(project_path) ==
    Tiers(analyze_project(project_path).project_type, analyze_project(project_path).big_dirs)

(***************************************************************************)
(* update_tree_ignore of src/src/mcp_server_fastmcp.py.                    *)
(***************************************************************************)
IgnoreHistoryCap == 50

\* merged = current + [p for p in patterns if p.lower() not in {c.lower() for c in current}]
MergePatterns(current, patterns) ==
    LET lower_current == LowerSet(current)
    IN  current \o SelectSeq(patterns, LAMBDA p : Lower(p) \notin lower_current)

\* remaining = [p for p in current if p.lower() not in lower_remove]
RemainingPatterns(current, patterns) ==
    LET lower_remove == LowerSet(patterns)
    IN  SelectSeq(current, LAMBDA p : Lower(p) \notin lower_remove)

\* The pattern list the action validates.
PatternsFor(action, current, patterns) ==
    CASE action = "auto" ->
           normalize_patterns(suggest_patterns_for_project(Root).critical
                              \o suggest_patterns_for_project(Root).recommended)
      [] action = "set" -> normalize_patterns(patterns)
      [] action = "add" -> MergePatterns(current, normalize_patterns(patterns))
      [] OTHER -> RemainingPatterns(current, normalize_patterns(patterns))

\* The attributes of the config object when the history is recorded: the
\* dataclass fields, and what the auto branch has assigned.
AttrsAtHistory(action) ==
    ConfigFields \cup (IF action = "auto" THEN {"project_type", "auto_detected_patterns"}
                       ELSE {})

\* config.tree_ignore_history.insert(0, entry); config.tree_ignore_history[:50]
RecordIgnoreChange(history, entry) == Take(<<entry>> \o history, IgnoreHistoryCap)

\* split_patterns(config.tree_ignore) of a default configuration
DefaultPatterns == split_patterns(DefaultTreeIgnore)

\* The body of update_tree_ignore: where it ends and the config object then.
UpdateTreeIgnoreRun(file, action, patterns, reason, now) ==
    LET config == LoadProjectConfig(file)
        current == IF config.tree_ignore = DefaultTreeIgnore THEN DefaultPatterns
                   ELSE split_patterns(config.tree_ignore)
        known == action \in {"auto", "set", "add", "remove"}
        v == validate_ignore_patterns(
                 PatternsFor(action, current, IF IsNone(patterns) THEN <<>> ELSE Get(patterns)))
        rejected == action \in {"auto", "set", "add"} /\ v.errors
        updated == [config EXCEPT !.tree_ignore = v.joined]
        hasHistory == "tree_ignore_history" \in AttrsAtHistory(action)
        entry == [timestamp |-> now, patterns |-> v.joined, action |-> action,
                  reason |-> IF IsNone(reason) THEN "" ELSE Get(reason)]
        stage == CASE ~known -> "unknown_action"
                   [] known /\ rejected -> "rejected"
                   [] known /\ ~rejected /\ ~hasHistory -> "raised"
                   [] OTHER -> "ok"
    IN  [stage |-> stage,
         tree_ignore |-> IF stage \in {"raised", "ok"} THEN v.joined ELSE config.tree_ignore,
         config |-> IF stage = "ok"
                    THEN [f \in ConfigFields \cup {"tree_ignore_history"} |->
                            IF f = "tree_ignore_history"
                            THEN RecordIgnoreChange(config.tree_ignore_history, entry)
                            ELSE updated[f]]
                    ELSE config,
         entry |-> entry]

\* What the caller is told.
UpdateResultOf(stage) == IF stage = "ok" THEN "updated" ELSE "error"

UpdateTreeIgnore(action, patterns, reason, cfgWrite) ==
    /\ clock < MaxClock
    /\ \E o \in {UpdateTreeIgnoreRun(cfgFile, action, patterns, reason, clock + 1)} :
           /\ cfgFile' = IF o.stage = "ok"
                         THEN SaveProjectConfig(cfgFile, o.config, cfgWrite)
                         ELSE cfgFile
           /\ cfgFault' = (cfgFault \/ (o.stage = "ok" /\ cfgWrite # "written"))
           /\ last' = [op |-> "update_tree_ignore",
                       req |-> [action |-> action, patterns |-> patterns, reason |-> reason],
                       stage |-> o.stage, result |-> UpdateResultOf(o.stage),
                       raised |-> o.stage = "raised",
                       escaped |-> Escaped("update_tree_ignore", o.stage = "raised"),
                       tree_ignore |-> o.tree_ignore, entry |-> o.entry,
                       cfgBefore |-> cfgFile, docsBefore |-> docs, dirsBefore |-> dirs]
    /\ clock' = clock + 1
    /\ UNCHANGED <<fs, docs, dirs, nOk>>

(***************************************************************************)
(* set_project_config (the same body in both front-ends).                  *)
(***************************************************************************)
\* The three "if x is not None: config.x = x" assignments.
ConfigWith(config, tree_ignore, default_output_dir, default_context_dumps) ==
    [tree_ignore |-> IF IsNone(tree_ignore) THEN config.tree_ignore ELSE Get(tree_ignore),
     output_dir |-> IF IsNone(default_output_dir) THEN config.output_dir
                    ELSE Get(default_output_dir),
     default_context_dumps |-> IF IsNone(default_context_dumps)
                               THEN config.default_context_dumps
                               ELSE Get(default_context_dumps),
     recent_contexts |-> config.recent_contexts]

SetProjectConfig(tree_ignore, default_output_dir, default_context_dumps, cfgWrite) ==
    /\ cfgFile' = SaveProjectConfig(cfgFile,
                                    ConfigWith(LoadProjectConfig(cfgFile), tree_ignore,
                                               default_output_dir, default_context_dumps),
                                    cfgWrite)
    /\ cfgFault' = (cfgFault \/ cfgWrite # "written")
    /\ last' = [op |-> "set_project_config",
                req |-> [tree_ignore |-> tree_ignore,
                         default_output_dir |-> default_output_dir,
                         default_context_dumps |-> default_context_dumps],
                result |-> "updated", cfgWrite |-> cfgWrite,
                raised |-> FALSE, escaped |-> Escaped("set_project_config", FALSE),
                cfgBefore |-> cfgFile, docsBefore |-> docs, dirsBefore |-> dirs]
    /\ UNCHANGED <<fs, docs, dirs, clock, nOk>>

(***************************************************************************)
(* create_debug_notes (the same body in both front-ends).                  *)
(***************************************************************************)
\* The body of create_debug_notes: where it ends, the directory it makes and
\* the file it writes. The file system answers with `fault`: "none",
\* "mkdir_fails" or "open_fails".
CreateDebugNotesRun(filename, subfolder, fault) ==
    LET \* if not filename.endswith('.md'): filename += '.md'
        n == Len(filename.parts)
        name == filename.parts[n]
        with_md == IF EndsWithMd(name) THEN filename
                   ELSE P(filename.abs, SubSeq(filename.parts, 1, n - 1) \o <<name \o ".md">>)
        notes_dir == PathJoin(Root, subfolder)
        file_path == PathJoin(notes_dir, with_md)
        stage == CASE fault = "mkdir_fails" \/ OsPath(notes_dir) \in DOMAIN fs -> "mkdir_failed"
                   [] OTHER ->
                        IF fault = "open_fails" \/ IsDir(OsPath(file_path)) THEN "open_failed"
                        ELSE IF ~IsRelativeTo(file_path, Root) THEN "after_write_failed"
                        ELSE "ok"
    IN  [stage |-> stage, notes_dir |-> notes_dir, file_path |-> file_path]

CreateDebugNotes(filename, subfolder, fault) ==
    /\ clock < MaxClock
    /\ \E o \in {CreateDebugNotesRun(filename, subfolder, fault)} :
          /\ dirs' = IF o.stage = "mkdir_failed" THEN dirs
                     ELSE dirs \cup {OsPath(o.notes_dir)}
          /\ fs' = IF o.stage \in {"after_write_failed", "ok"}
                   THEN [q \in DOMAIN fs \cup {OsPath(o.file_path)} |->
                           IF q = OsPath(o.file_path) THEN [mtime |-> NowAt(clock + 1)]
                           ELSE fs[q]]
                   ELSE fs
          /\ last' = [op |-> "create_debug_notes",
                      req |-> [filename |-> filename, subfolder |-> subfolder],
                      stage |-> o.stage,
                      result |-> IF o.stage = "ok" THEN "created" ELSE "error",
                      raised |-> o.stage # "ok",
                      escaped |-> Escaped("create_debug_notes", o.stage # "ok"),
                      file_path |-> o.file_path,
                      fsBefore |-> fs, cfgBefore |-> cfgFile, docsBefore |-> docs,
                      dirsBefore |-> dirs]
    /\ clock' = clock + 1
    /\ UNCHANGED <<cfgFile, docs, nOk, cfgFault>>

(***************************************************************************)
(* clean_temp_notes (the same body in both front-ends).                    *)
(***************************************************************************)
\* notes_dir.glob("*.md"): the files directly in the notes directory whose
\* name ends with .md
MdNotes ==
    {q \in DOMAIN fs :
        /\ Len(q.parts) = Len(OsPath(NotesDir).parts) + 1
        /\ SubSeq(q.parts, 1, Len(q.parts) - 1) = OsPath(NotesDir).parts
        /\ EndsWithMd(q.parts[Len(q.parts)])}

\* A loop that also takes the files that are exactly as old as the cutoff.
OldNotesInclusive(cutoff_time) == {q \in MdNotes : fs[q].mtime <= cutoff_time}

\* The files the loop unlinks: file.stat().st_mtime < cutoff_time
OldNotes(cutoff_time) == {q \in MdNotes : fs[q].mtime < cutoff_time}

\* The body of clean_temp_notes at time `now`. When stat() or unlink() fails
\* on the file `failing`, the files in `done` were unlinked before it (glob
\* yields the files in no fixed order).
CleanTempNotesRun(older_than_days, failing, done, now) ==
    LET cutoff_time == now - older_than_days * SecondsPerDay
        old == OldNotes(cutoff_time)
    IN  IF ~IsDir(OsPath(NotesDir))
        THEN [stage |-> "no_dir", deleted |-> {}, deleted_count |-> 0]
        ELSE IF IsNone(failing)
        THEN [stage |-> "ok", deleted |-> old, deleted_count |-> Cardinality(old)]
        ELSE [stage |-> "raised", deleted |-> done \cap (old \ {Get(failing)}),
              deleted_count |-> Cardinality(done \cap (old \ {Get(failing)}))]

\* A handler with no test of notes_dir.exists(): a missing directory ends in
\* the except clause.
CleanResultOfUnchecked(stage) == IF stage = "ok" THEN "cleaned" ELSE "error"

\* What the caller is told.
CleanResultOf(stage) ==
    CASE stage = "no_dir" -> "none_found"
      [] stage = "ok" -> "cleaned"
      [] OTHER -> "error"

CleanTempNotes(older_than_days, failing, done) ==
    /\ clock < MaxClock
    /\ IsNone(failing) => done = {}
    /\ ~IsNone(failing) => IsDir(OsPath(NotesDir)) /\ Get(failing) \in MdNotes
    /\ \E o \in {CleanTempNotesRun(older_than_days, failing, done, NowAt(clock + 1))} :
          /\ fs' = [q \in DOMAIN fs \ o.deleted |-> fs[q]]
          /\ last' = [op |-> "clean_temp_notes",
                      req |-> [older_than_days |-> older_than_days],
                      stage |-> o.stage, result |-> CleanResultOf(o.stage),
                      deleted_count |-> o.deleted_count,
                      raised |-> o.stage = "raised",
                      escaped |-> Escaped("clean_temp_notes", o.stage = "raised"),
                      now |-> NowAt(clock + 1),
                      fsBefore |-> fs, cfgBefore |-> cfgFile, docsBefore |-> docs,
                      dirsBefore |-> dirs]
    /\ clock' = clock + 1
    /\ UNCHANGED <<cfgFile, docs, dirs, nOk, cfgFault>>

(***************************************************************************)
(* The tools that show the analysis: get_tree_ignore and                   *)
(* analyze_project_structure of src/src/mcp_server_fastmcp.py.             *)
(***************************************************************************)
\* get_tree_ignore(project_path): the current patterns and what is suggested
\* on top of them.
GetTreeIgnore(project_path) ==
    LET config == IF project_path = Root THEN LoadProjectConfig(cfgFile) ELSE ProjectConfig
        current == IF config.tree_ignore = DefaultTreeIgnore THEN DefaultPatterns
                   ELSE split_patterns(config.tree_ignore)
        summary == IF analyze_project(project_path).raised
                   THEN [raised |-> TRUE]
                   ELSE [raised |-> FALSE,
                         project_type |-> analyze_project(project_path).project_type,
                         tree_ignore |-> config.tree_ignore,
                         recommended_adds |->
                             SelectSeq(suggest_patterns_for_project(project_path).critical
                                       \o suggest_patterns_for_project(project_path).recommended,
                                       LAMBDA x : Lower(x) \notin LowerSet(current))]
    IN
    /\ clock < MaxClock
    /\ \E o \in {summary} :
          last' = [op |-> "get_tree_ignore", req |-> [project_path |-> project_path],
                   result |-> IF o.raised THEN "error" ELSE "summary",
                   summary |-> o,
                   raised |-> o.raised, escaped |-> Escaped("get_tree_ignore", o.raised),
                   fsBefore |-> fs, cfgBefore |-> cfgFile, docsBefore |-> docs,
                   dirsBefore |-> dirs]
    /\ clock' = clock + 1
    /\ UNCHANGED <<cfgFile, fs, docs, dirs, nOk, cfgFault>>

\* analyze_project_structure(project_path): the analysis and the tiers
AnalyzeProjectStructure(project_path) ==
    LET report == IF analyze_project(project_path).raised
                  THEN [raised |-> TRUE]
                  ELSE [raised |-> FALSE,
                        project_type |-> analyze_project(project_path).project_type,
                        big_dirs |-> analyze_project(project_path).big_dirs,
                        tiers |-> suggest_patterns_for_project(project_path)]
    IN
    /\ clock < MaxClock
    /\ \E o \in {report} :
          last' = [op |-> "analyze_project_structure",
                   req |-> [project_path |-> project_path],
                   result |-> IF o.raised THEN "error" ELSE "report",
                   report |-> o,
                   raised |-> o.raised,
                   escaped |-> Escaped("analyze_project_structure", o.raised),
                   fsBefore |-> fs, cfgBefore |-> cfgFile, docsBefore |-> docs,
                   dirsBefore |-> dirs]
    /\ clock' = clock + 1
    /\ UNCHANGED <<cfgFile, fs, docs, dirs, nOk, cfgFault>>

\* A call of the library functions of config.py on a root.
Classify(project_path, seed) ==
    /\ clock < MaxClock
    /\ last' = [op |-> "detect_project_type", req |-> [project_path |-> project_path],
                project_type |-> detect_project_type(project_path),
                suggestion |-> suggest_ignore_patterns(project_path, seed),
                \* what the call before this one returned for the same root
                previous |-> IF last.op = "detect_project_type"
                                /\ last.req.project_path = project_path
                             THEN Some(last.suggestion.joined) ELSE None,
                result |-> "returned", raised |-> FALSE, escaped |-> FALSE,
                fsBefore |-> fs, cfgBefore |-> cfgFile, docsBefore |-> docs,
                dirsBefore |-> dirs]
    /\ clock' = clock + 1
    /\ UNCHANGED <<cfgFile, fs, docs, dirs, nOk, cfgFault>>

(***************************************************************************)
(* list_recent_contexts (the same body in both front-ends) and the         *)
(* dispatch of src/src/mcp_server.py.                                      *)
(***************************************************************************)
\* list_recent_contexts: config.recent_contexts[:limit]
ListRecentContexts(limit) ==
    LET config == LoadProjectConfig(cfgFile)
        listing == IF config.recent_contexts = <<>>
                   THEN [result |-> "none_found", listed |-> <<>>]
                   ELSE [result |-> "listing", listed |-> Take(config.recent_contexts, limit)]
    IN
    /\ clock < MaxClock
    /\ \E o \in {listing} :
          last' = [op |-> "list_recent_contexts", req |-> [limit |-> limit],
                   result |-> o.result, listed |-> o.listed,
                   raised |-> FALSE, escaped |-> Escaped("list_recent_contexts", FALSE),
                   fsBefore |-> fs, cfgBefore |-> cfgFile, docsBefore |-> docs,
                   dirsBefore |-> dirs]
    /\ clock' = clock + 1
    /\ UNCHANGED <<cfgFile, fs, docs, dirs, nOk, cfgFault>>

\* call_tool(name, arguments) when it reaches no handler body: a name that is
\* no tool, or a tool called with arguments the handler does not take
\* (self.<tool>(**arguments) raises TypeError).
CallTool(name, argumentsFit) ==
    LET is_tool == name \in {"prepare_context", "create_debug_notes", "set_project_config",
                             "list_recent_contexts", "clean_temp_notes"}
    IN
    /\ clock < MaxClock
    /\ is_tool => ~argumentsFit
    /\ last' = [op |-> "call_tool", req |-> [name |-> name, argumentsFit |-> argumentsFit],
                result |-> IF is_tool THEN "error" ELSE "unknown_tool",
                raised |-> is_tool,
                escaped |-> Escaped("call_tool", is_tool),
                fsBefore |-> fs, cfgBefore |-> cfgFile, docsBefore |-> docs,
                dirsBefore |-> dirs]
    /\ clock' = clock + 1
    /\ UNCHANGED <<cfgFile, fs, docs, dirs, nOk, cfgFault>>

(***************************************************************************)
(* The requests of the model.                                              *)
(***************************************************************************)
IgnoreArgs == {None, Some("*.o||*.O")}

OutputDirArgs == {None, Some(P(TRUE, <<"tmp">>))}

DefaultDumpArgs == {None, Some(<<[file |-> NoteX, title |-> "Default X"]>>)}

FileLists ==
    {<<>>,
     <<[path |-> MainPy, note |-> "entry point"]>>,
     <<[path |-> MainPy], [path |-> GonePy]>>,
     <<[path |-> BigBin]>>}

DictDumpLists ==
    {<<>>,
     <<[file |-> NoteX, title |-> "Explicit X"]>>,
     <<[file |-> NoteY]>>}

OutputNames == {None, Some(P(FALSE, <<"out.md">>)), Some(P(TRUE, <<"tmp", "out.md">>))}

RequestIgnores == {None, Some(""), Some("*.tmp")}

Req(files, context_dumps, general_notes, output_name, tree_ignore) ==
    [files |-> files, context_dumps |-> context_dumps, general_notes |-> general_notes,
     output_name |-> output_name, tree_ignore |-> tree_ignore]

BaseFiles == <<[path |-> MainPy, note |-> "entry point"]>>

OutMd == Some(P(FALSE, <<"out.md">>))

\* Every file list with every dump list, and each note list, output name and
\* ignore string with a request that can be served.
PrepareRequests ==
    {Req(f, d, <<>>, OutMd, None) : f \in FileLists, d \in DictDumpLists}
    \cup {Req(<<[path |-> NoteX, note |-> "the notes"], [path |-> MainPy]>>,
               <<[file |-> NoteX, title |-> "Explicit X"], [file |-> MainPy]>>,
               <<"b note", "a note">>, OutMd, None)}
    \cup {Req(BaseFiles, <<>>, <<>>, o, None) : o \in OutputNames}
    \cup {Req(BaseFiles, <<>>, <<>>, OutMd, ti) : ti \in RequestIgnores}

FastReq(files, context_dumps, notes, note_files, output_name, tree_ignore, dry_run) ==
    [files |-> files, context_dumps |-> context_dumps, general_notes |-> notes,
     general_note_files |-> note_files, output_name |-> output_name,
     tree_ignore |-> tree_ignore, dry_run |-> dry_run]

FastFileLists ==
    {<<>>,
     <<FileSpec(MainPy, Some("entry point"))>>,
     <<Dict([file |-> MainPy, comment |-> "entry point"])>>,
     <<FileSpec(MainPy, None), FileSpec(GonePy, None)>>,
     <<Dict([note |-> "no path"])>>}

FastDumpLists ==
    {<<>>,
     <<DumpSpec(NoteX, Some("Explicit X"))>>,
     <<Dict([file |-> NoteX, title |-> "Explicit X"])>>,
     <<Dict([path |-> NoteX, title |-> "Explicit X"])>>,
     <<DumpSpec(NoteY, None)>>}

FastBaseFiles == <<FileSpec(MainPy, Some("entry point"))>>

\* Each file list and each dump list, run and previewed, and each note list,
\* note file list, output name and ignore string with a request that can be
\* served.
FastPrepareRequests ==
    {FastReq(f, <<>>, <<>>, <<>>, OutMd, None, dr) : f \in FastFileLists, dr \in BOOLEAN}
    \cup {FastReq(FastBaseFiles, d, <<>>, <<>>, OutMd, None, dr) :
            d \in FastDumpLists, dr \in BOOLEAN}
    \cup {FastReq(<<FileSpec(NoteX, Some("the notes")), Dict([path |-> MainPy])>>,
                   <<DumpSpec(NoteX, Some("Explicit X")), Dict([file |-> MainPy])>>,
                   <<"b note", "a note">>, nf, OutMd, None, dr) :
            nf \in {<<NoteX>>, <<NoteY, NoteX>>}, dr \in BOOLEAN}
    \cup {FastReq(FastBaseFiles, <<>>, <<>>, <<>>, o, None, FALSE) : o \in OutputNames}
    \cup {FastReq(FastBaseFiles, <<>>, <<>>, <<>>, OutMd, ti, FALSE) : ti \in RequestIgnores}

IgnoreActions == {"set", "add", "remove"}

PatternArgs ==
    {None,
     Some(<<"*.log">>),
     Some(<<" Build ", "", "build", ".GIT">>),
     Some(<<"src/gen", "*.o">>)}

\* set, add and remove with each pattern list, auto, an action that is none
\* of the four, and a request that gives its reason.
UpdateRequests ==
    {[action |-> a, patterns |-> p, reason |-> None] : a \in IgnoreActions, p \in PatternArgs}
    \cup {[action |-> "auto", patterns |-> None, reason |-> Some("defaults")],
          [action |-> "replace", patterns |-> Some(<<"*.log">>), reason |-> None],
          [action |-> "set", patterns |-> Some(<<"*.log">>), reason |-> Some("cleanup")]}

\* create_debug_notes: a name without and with .md, an absolute name, the
\* two failures of the file system, and a subfolder that is a file.
CreateRequests ==
    {[filename |-> f, subfolder |-> NotesDir, fault |-> "none"] :
        f \in {P(FALSE, <<"x">>), P(FALSE, <<"todo.md">>), P(TRUE, <<"tmp", "z">>)}}
    \cup {[filename |-> P(FALSE, <<"x">>), subfolder |-> NotesDir, fault |-> x] :
            x \in {"none", "mkdir_fails", "open_fails"}}
    \cup {[filename |-> P(FALSE, <<"x">>), subfolder |-> MainPy, fault |-> "none"]}

\* A root that is no directory.
Missing == P(TRUE, <<"nowhere">>)

(***************************************************************************)
(* The specification.                                                      *)
(***************************************************************************)
Init ==
    /\ cfgFile = NoFile
    /\ fs = [p \in {OsPath(MainPy), OsPath(BigBin), OsPath(NoteX)} |-> [mtime |-> 0]]
    /\ docs = <<>>
    /\ dirs = {}
    /\ clock = 0
    /\ last = [op |-> "none"]
    /\ nOk = 0
    /\ cfgFault = FALSE

Next ==
    \/ \E req \in PrepareRequests, writeOk \in BOOLEAN :
          PrepareContext(req, writeOk, "written")
    \/ \E req \in FastPrepareRequests, writeOk \in BOOLEAN :
          FastPrepareContext(req, writeOk, "written")
    \/ \E u \in UpdateRequests :
          UpdateTreeIgnore(u.action, u.patterns, u.reason, "written")
    \/ \E ti \in IgnoreArgs, od \in OutputDirArgs, dd \in DefaultDumpArgs :
          SetProjectConfig(ti, od, dd, "written")

Spec == Init /\ [][Next]_vars

(***************************************************************************)
(* The notes directory on its own: projects whose notes directory holds    *)
(* markdown notes older than, exactly as old as and newer than a week, and *)
(* other files; projects with an empty one and with none.                  *)
(***************************************************************************)
Week == 7 * SecondsPerDay

NotesFs(a, b, c) ==
    LET present == {OsPath(P(FALSE, <<"README.md">>))}
                   \cup (IF IsNone(a) THEN {} ELSE {OsPath(P(FALSE, <<NotesDirName, "a.md">>))})
                   \cup (IF IsNone(b) THEN {} ELSE {OsPath(P(FALSE, <<NotesDirName, "b.md">>))})
                   \cup (IF IsNone(c) THEN {} ELSE {OsPath(P(FALSE, <<NotesDirName, "c.txt">>))})
    IN  [q \in present |->
            [mtime |-> CASE q = OsPath(P(FALSE, <<NotesDirName, "a.md">>)) -> Get(a)
                         [] q = OsPath(P(FALSE, <<NotesDirName, "b.md">>)) -> Get(b)
                         [] q = OsPath(P(FALSE, <<NotesDirName, "c.txt">>)) -> Get(c)
                         [] OTHER -> NowAt(1) - Week - SecondsPerDay]]

NotesInit ==
    /\ \E a \in {None} \cup {Some(m) : m \in {NowAt(1) - Week - SecondsPerDay,
                                                NowAt(1) - Week,
                                                NowAt(1) - SecondsPerDay}},
          b \in {None, Some(NowAt(1) - Week - SecondsPerDay)},
          c \in {None, Some(NowAt(1) - Week - SecondsPerDay)},
          made \in BOOLEAN :
          /\ fs = NotesFs(a, b, c)
          /\ dirs = IF made THEN {OsPath(NotesDir)} ELSE {}
    /\ cfgFile = NoFile
    /\ docs = <<>>
    /\ clock = 0
    /\ last = [op |-> "none"]
    /\ nOk = 0
    /\ cfgFault = FALSE

NotesNext ==
    \/ \E c \in CreateRequests : CreateDebugNotes(c.filename, c.subfolder, c.fault)
    \/ \E d \in {0, 7}, failing \in {None} \cup {Some(q) : q \in MdNotes},
           done \in SUBSET MdNotes :
          CleanTempNotes(d, failing, done)

NotesSpec == NotesInit /\ [][NotesNext]_vars

(***************************************************************************)
(* The analyzer on its own: roots with every combination of marker files,  *)
(* with and without a large directory.                                     *)
(***************************************************************************)
AnalyzerInit ==
    LET AnalyzerFs(names, large) ==
            LET files == {OsPath(P(FALSE, <<n>>)) : n \in names}
                heavy == IF large = <<>> THEN {}
                         ELSE {OsPath(P(FALSE, <<large[1], "blob">>))}
            IN  [q \in files \cup heavy |->
                    IF q \in heavy THEN [mtime |-> 0, size |-> large[2]] ELSE [mtime |-> 0]]
    IN
    \* One marker of each type and a file that marks nothing; a large
    \* directory of the root: none, node_modules of 150 MB, dist of 120 MB.
    /\ \E names \in SUBSET {"setup.py", "package.json", "Cargo.toml", "go.mod", "pom.xml",
                              "app.csproj", "Gemfile", "composer.json", "notes.txt"},
          large \in {<<>>, <<"node_modules", 150>>, <<"dist", 120>>} :
          fs = AnalyzerFs(names, large)
    /\ dirs = {OsPath(Root)}
    /\ cfgFile = NoFile
    /\ docs = <<>>
    /\ clock = 0
    /\ last = [op |-> "none"]
    /\ nOk = 0
    /\ cfgFault = FALSE

AnalyzerNext ==
    \/ \E root \in {Root, Missing}, seed \in {0, 1} : Classify(root, seed)
    \/ \E root \in {Root, Missing} : GetTreeIgnore(root)
    \/ \E root \in {Root, Missing} : AnalyzeProjectStructure(root)

AnalyzerSpec == AnalyzerInit /\ [][AnalyzerNext]_vars

(***************************************************************************)
(* Every tool of the two front-ends, one request on each of a few          *)
(* projects: a new one, one with a stored configuration and a written      *)
(* document, one whose configuration file is cut short, and one with       *)
(* notes.                                                                  *)
(***************************************************************************)
ToolsInit ==
    /\ \/ /\ cfgFile = NoFile
          /\ fs = [q \in {OsPath(MainPy), OsPath(BigBin), OsPath(NoteX)} |->
                     [mtime |-> NowAt(1) - Week - SecondsPerDay]]
          /\ docs = <<>>
          /\ dirs = {}
       \/ /\ cfgFile \in
                {JsonFile([tree_ignore |-> "*.o|*.tmp",
                           output_dir |-> DefaultOutputDir,
                           default_context_dumps |-> <<[file |-> NoteX, title |-> "Default X"]>>,
                           recent_contexts |->
                               <<[timestamp |-> 0,
                                  output |-> P(FALSE, <<"context_reports", "out.md">>),
                                  description |-> <<1, 0>>]>>]),
                 Garbage}
          /\ fs = [q \in {OsPath(MainPy), OsPath(BigBin), OsPath(NoteX)} |->
                     [mtime |-> NowAt(1) - Week - SecondsPerDay]]
          /\ docs = [q \in {OsPath(P(FALSE, <<"context_reports", "out.md">>))} |->
                       [written_at |-> 0]]
          /\ dirs = {OsPath(DefaultOutputDir)}
       \/ /\ cfgFile = NoFile
          /\ \E a \in {Some(m) : m \in {NowAt(1) - Week - SecondsPerDay,
                                         NowAt(1) - Week,
                                         NowAt(1) - SecondsPerDay}} :
                fs = NotesFs(a, Some(NowAt(1) - Week - SecondsPerDay), None)
          /\ docs = <<>>
          /\ dirs = {OsPath(NotesDir)}
    /\ clock = MaxClock - 1
    /\ last = [op |-> "none"]
    /\ nOk = 0
    /\ cfgFault = FALSE

ToolsNext ==
    \/ \E req \in PrepareRequests, writeOk \in BOOLEAN, cfgWrite \in WriteOutcomes :
          PrepareContext(req, writeOk, cfgWrite)
    \/ \E req \in FastPrepareRequests, writeOk \in BOOLEAN, cfgWrite \in WriteOutcomes :
          FastPrepareContext(req, writeOk, cfgWrite)
    \/ \E u \in UpdateRequests, cfgWrite \in WriteOutcomes :
          UpdateTreeIgnore(u.action, u.patterns, u.reason, cfgWrite)
    \/ \E ti \in IgnoreArgs, od \in OutputDirArgs, dd \in DefaultDumpArgs,
           cfgWrite \in WriteOutcomes :
          SetProjectConfig(ti, od, dd, cfgWrite)
    \/ \E c \in CreateRequests : CreateDebugNotes(c.filename, c.subfolder, c.fault)
    \/ \E d \in {0, 7}, failing \in {None} \cup {Some(q) : q \in MdNotes},
           done \in SUBSET MdNotes :
          CleanTempNotes(d, failing, done)
    \/ \E limit \in {1, 10} : ListRecentContexts(limit)
    \/ \E root \in {Root, Missing} : GetTreeIgnore(root)
    \/ \E root \in {Root, Missing} : AnalyzeProjectStructure(root)
    \/ \E c \in {[name |-> "no_such_tool", argumentsFit |-> TRUE],
                 [name |-> "prepare_context", argumentsFit |-> FALSE]} :
          CallTool(c.name, c.argumentsFit)

ToolsSpec == ToolsInit /\ [][ToolsNext]_vars

(***************************************************************************)
(* What the claims speak of.                                               *)
(***************************************************************************)
\* The record the configuration file holds (the defaults when there is none).
Persisted(file) == IF file.kind = "json" THEN file.data ELSE ToDict(ProjectConfig)

\* The persisted tree_ignore_history.
PersistedHistory(file) ==
    IF file.kind = "json" /\ "tree_ignore_history" \in DOMAIN file.data
    THEN file.data.tree_ignore_history
    ELSE <<>>

AfterPrepare == last.op = "prepare_context"

AfterUpdate(action) == last.op = "update_tree_ignore" /\ last.req.action = action

\* The patterns of the last update_tree_ignore request, normalized.
GivenPatterns ==
    normalize_patterns(IF IsNone(last.req.patterns) THEN <<>> ELSE Get(last.req.patterns))

\* The pattern list persisted before the last request.
PatternsBefore == split_patterns(Persisted(last.cfgBefore).tree_ignore)

\* The dump sections of the document of the last request.
DocDumps == last.doc[3].items

\* The path an explicit context_dumps entry names, and its title: a typed
\* record, or a dict with the path under "file" or, in the fastmcp front-end,
\* under the synonym "path".
ExplicitDump(x) ==
    IF last.server = "fastmcp" THEN CoerceDumpSpec(x)
    ELSE [file |-> DictGet(x, "file"), title |-> DictGet(x, "title")]

(***************************************************************************)
(* C1: after a successful prepare_context the persisted recent_contexts    *)
(* has min(N, 20) entries, N the successful calls so far, and its first    *)
(* entry is the one of this call.                                          *)
(***************************************************************************)
C1_RecentContextsGrow ==
    (AfterPrepare /\ last.result = "saved" /\ ~cfgFault) =>
        /\ cfgFile.kind = "json"
        /\ Len(cfgFile.data.recent_contexts) = Min(nOk, HistoryCap)
        /\ cfgFile.data.recent_contexts[1].timestamp = clock
        /\ cfgFile.data.recent_contexts[1].output = RelativeTo(last.outPath, Root)

(***************************************************************************)
(* C2: what save_project_config stored is what load_project_config         *)
(* returns: tree_ignore, output_dir, default_context_dumps and             *)
(* recent_contexts of the loaded config equal the stored ones.             *)
(***************************************************************************)
C2_SaveLoadRoundTrip ==
    cfgFile.kind = "json" =>
        \A f \in ConfigFields : LoadProjectConfig(cfgFile)[f] = cfgFile.data[f]

(***************************************************************************)
(* C3: every default context dump of the project is in the document        *)
(* exactly once, with the title of the explicit entry that names its path  *)
(* when there is one.                                                      *)
(***************************************************************************)
C3_DumpsOnce ==
    (AfterPrepare /\ last.stage # "add_failed") =>
        \A i \in 1..Len(Persisted(last.cfgBefore).default_context_dumps) :
            LET dump == Persisted(last.cfgBefore).default_context_dumps[i]
                explicit == {j \in 1..Len(last.req.context_dumps) :
                               ExplicitDump(last.req.context_dumps[j]).file = Some(dump.file)}
            IN  /\ Cardinality({k \in 1..Len(DocDumps) : DocDumps[k].file = dump.file}) = 1
                /\ \A j \in explicit :
                      \E k \in 1..Len(DocDumps) :
                          /\ DocDumps[k].file = dump.file
                          /\ DocDumps[k].title = ExplicitDump(last.req.context_dumps[j]).title

(***************************************************************************)
(* C4: a prepare_context that reports an error leaves the configuration    *)
(* file exactly as it was before the call.                                 *)
(***************************************************************************)
C4_FailureKeepsConfig ==
    (AfterPrepare /\ last.result = "error") => cfgFile = last.cfgBefore

\* A request failed after its document was written, over a stored history.
C4_Witness ==
    /\ AfterPrepare
    /\ last.stage = "after_write_failed"
    /\ last.cfgBefore.kind = "json"
    /\ Len(last.cfgBefore.data.recent_contexts) > 0

(***************************************************************************)
(* C5: a dry run writes nothing (no document, no directory, no             *)
(* configuration) and, when it can read what the request names, answers    *)
(* with a preview that lists the files, dumps and note files of the        *)
(* document it would write (an error when it cannot).                      *)
(***************************************************************************)
C5_DryRunWritesNothing ==
    (AfterPrepare /\ last.server = "fastmcp" /\ last.req.dry_run) =>
        /\ docs = last.docsBefore
        /\ dirs = last.dirsBefore
        /\ cfgFile = last.cfgBefore
        /\ last.result = (IF last.doc # <<>> THEN "preview" ELSE "error")
        /\ last.result = "preview" =>
              /\ last.manifest[1]
                    = [i \in 1..Len(last.doc[2].items) |-> ShownPath(last.doc[2].items[i].path)]
              /\ last.manifest[2] = [i \in 1..Len(DocDumps) |-> DocDumps[i].file]
              /\ LET fromFiles == SelectSeq(last.doc[4].items,
                                            LAMBDA n : "content_of" \in DOMAIN n)
                 IN  [i \in 1..Len(last.manifest[3]) |-> OsPath(last.manifest[3][i])]
                        = [i \in 1..Len(fromFiles) |-> fromFiles[i].content_of]

\* A preview of a file, a note file and a dump, over documents and a
\* configuration written before.
C5_Witness ==
    /\ AfterPrepare
    /\ last.server = "fastmcp"
    /\ last.req.dry_run
    /\ last.result = "preview"
    /\ Len(last.manifest[1]) > 0
    /\ Len(last.manifest[2]) + Len(last.manifest[3]) > 0
    /\ DOMAIN docs # {}
    /\ cfgFile.kind = "json"

(***************************************************************************)
(* C6: update_tree_ignore 'set' with patterns that fail validation reports *)
(* an error and leaves the configuration file untouched; with patterns     *)
(* that pass, the persisted tree_ignore is the joined normalized list.     *)
(***************************************************************************)
C6_SetReplaces ==
    AfterUpdate("set") =>
        IF validate_ignore_patterns(GivenPatterns).errors
        THEN last.result = "error" /\ cfgFile = last.cfgBefore
        ELSE /\ cfgFile.kind = "json"
             /\ cfgFile.data.tree_ignore = JoinPipe(GivenPatterns)

(***************************************************************************)
(* C7: update_tree_ignore 'add' persists the current patterns in their     *)
(* order followed by the new patterns that equal none of them ignoring     *)
(* case.                                                                   *)
(***************************************************************************)
C7_AddAppends ==
    LET fresh == SelectSeq(GivenPatterns,
                           LAMBDA p : \A i \in 1..Len(PatternsBefore) :
                                         Lower(PatternsBefore[i]) # Lower(p))
    IN  (AfterUpdate("add") /\ ~validate_ignore_patterns(PatternsBefore \o fresh).errors) =>
            /\ cfgFile.kind = "json"
            /\ split_patterns(cfgFile.data.tree_ignore) = PatternsBefore \o fresh

(***************************************************************************)
(* C8: update_tree_ignore 'remove' persists the current patterns that      *)
(* equal no removed pattern ignoring case, in their order, and records one *)
(* history entry with action 'remove'.                                     *)
(***************************************************************************)
C8_RemoveFilters ==
    LET kept == SelectSeq(PatternsBefore,
                          LAMBDA p : \A i \in 1..Len(GivenPatterns) :
                                        Lower(GivenPatterns[i]) # Lower(p))
    IN  AfterUpdate("remove") =>
            /\ cfgFile.kind = "json"
            /\ split_patterns(cfgFile.data.tree_ignore) = kept
            /\ Len(PersistedHistory(cfgFile)) = Len(PersistedHistory(last.cfgBefore)) + 1
            /\ PersistedHistory(cfgFile)[1].action = "remove"

(***************************************************************************)
(* C9: update_tree_ignore 'auto' persists the normalized critical and      *)
(* recommended tiers, whatever the pattern list was.                       *)
(***************************************************************************)
C9_AutoReplaces ==
    LET tiers == normalize_patterns(suggest_patterns_for_project(Root).critical
                                    \o suggest_patterns_for_project(Root).recommended)
    IN  (AfterUpdate("auto") /\ ~validate_ignore_patterns(tiers).errors) =>
            /\ cfgFile.kind = "json"
            /\ cfgFile.data.tree_ignore = JoinPipe(tiers)

(***************************************************************************)
(* C10: an update_tree_ignore that is not rejected (a validation error, an *)
(* unknown action) puts exactly one entry at the front of the persisted    *)
(* tree_ignore_history, with the resulting tree_ignore, the action and the *)
(* reason; a rejected one adds none and saves nothing.                     *)
(***************************************************************************)
C10_OneHistoryEntry ==
    last.op = "update_tree_ignore" =>
        IF last.stage \in {"rejected", "unknown_action"}
        THEN cfgFile = last.cfgBefore
        ELSE /\ Len(PersistedHistory(cfgFile)) = Len(PersistedHistory(last.cfgBefore)) + 1
             /\ PersistedHistory(cfgFile)[1].patterns = Persisted(cfgFile).tree_ignore
             /\ PersistedHistory(cfgFile)[1].action = last.req.action
             /\ PersistedHistory(cfgFile)[1].reason
                   = (IF IsNone(last.req.reason) THEN "" ELSE Get(last.req.reason))

(***************************************************************************)
(* C11: the persisted tree_ignore_history is the request's entry put in    *)
(* front of the history persisted before, cut to its first 50 entries: it  *)
(* never has more than 50 and the newest entry is first.                   *)
(***************************************************************************)
C11_HistoryNewestFirst ==
    /\ Len(PersistedHistory(cfgFile)) <= IgnoreHistoryCap
    /\ (last.op = "update_tree_ignore" /\ last.stage \notin {"rejected", "unknown_action"}) =>
          PersistedHistory(cfgFile)
             = Take(<<last.entry>> \o PersistedHistory(last.cfgBefore), IgnoreHistoryCap)

(***************************************************************************)
(* C12: no tool raises to its caller, and every failure is told to the     *)
(* caller as an error: an exception in the body of a tool, and a write of  *)
(* the configuration file that did not happen.                             *)
(***************************************************************************)
C12_FailuresReported ==
    last.op # "none" =>
        /\ ~last.escaped
        /\ last.raised => last.result = "error"
        /\ (last.op = "set_project_config" /\ last.cfgWrite # "written") =>
              last.result = "error"

(***************************************************************************)
(* C13: clean_temp_notes deletes the markdown files of the notes directory *)
(* that are older than now - older_than_days * 86400 and no other file:    *)
(* what it leaves is unchanged, what it deletes is an old note, and when   *)
(* it answers with a count, every old note is deleted and the count is the *)
(* number of deleted files.                                                *)
(***************************************************************************)
C13_CleanDeletesOldNotes ==
    LET notes == OsPath(NotesDir).parts
        cutoff == last.now - last.req.older_than_days * SecondsPerDay
        old == {q \in DOMAIN last.fsBefore :
                  /\ Len(q.parts) = Len(notes) + 1
                  /\ SubSeq(q.parts, 1, Len(notes)) = notes
                  /\ EndsWithMd(q.parts[Len(q.parts)])
                  /\ last.fsBefore[q].mtime < cutoff}
        deleted == DOMAIN last.fsBefore \ DOMAIN fs
    IN  last.op = "clean_temp_notes" =>
            /\ DOMAIN fs \subseteq DOMAIN last.fsBefore
            /\ \A q \in DOMAIN fs : fs[q] = last.fsBefore[q]
            /\ dirs = last.dirsBefore
            /\ deleted \subseteq old
            /\ last.result = "cleaned" =>
                  /\ deleted = old
                  /\ last.deleted_count = Cardinality(deleted)

\* A cleanup that deleted a note, kept a note exactly as old as the cutoff
\* and kept an old file that is no markdown file.
C13_Witness ==
    /\ last.op = "clean_temp_notes"
    /\ last.result = "cleaned"
    /\ last.deleted_count = 1
    /\ OsPath(P(FALSE, <<NotesDirName, "b.md">>)) \notin DOMAIN fs
    /\ OsPath(P(FALSE, <<NotesDirName, "a.md">>)) \in DOMAIN fs
    /\ fs[OsPath(P(FALSE, <<NotesDirName, "a.md">>))].mtime
          = last.now - last.req.older_than_days * SecondsPerDay
    /\ OsPath(P(FALSE, <<NotesDirName, "c.txt">>)) \in DOMAIN fs
    /\ fs[OsPath(P(FALSE, <<NotesDirName, "c.txt">>))].mtime
          < last.now - last.req.older_than_days * SecondsPerDay

(***************************************************************************)
(* C14: clean_temp_notes on a project with no notes directory is no error: *)
(* no file is deleted, no directory is made and no file is counted.        *)
(***************************************************************************)
C14_NoNotesDirNoError ==
    LET notes == OsPath(NotesDir)
        existed == \/ notes \in last.dirsBefore
                   \/ \E q \in DOMAIN last.fsBefore :
                         /\ Len(q.parts) > Len(notes.parts)
                         /\ SubSeq(q.parts, 1, Len(notes.parts)) = notes.parts
    IN  (last.op = "clean_temp_notes" /\ ~existed) =>
            /\ last.result # "error"
            /\ ~last.raised
            /\ last.deleted_count = 0
            /\ fs = last.fsBefore
            /\ dirs = last.dirsBefore

\* A cleanup of a project that holds an old markdown file but no notes
\* directory.
C14_Witness ==
    /\ last.op = "clean_temp_notes"
    /\ last.result = "none_found"
    /\ OsPath(NotesDir) \notin dirs
    /\ OsPath(P(FALSE, <<"README.md">>)) \in DOMAIN fs
    /\ \A q \in DOMAIN fs : Len(q.parts) = Len(OsPath(Root).parts) + 1

(***************************************************************************)
(* C15: detect_project_type answers with the earliest type of the table    *)
(* python, javascript, rust, go, java, dotnet, ruby, php that has a marker *)
(* at the root, and with 'general' exactly when no type has one.           *)
(***************************************************************************)
C15_FirstMarkerWins ==
    LET root == OsPath(last.req.project_path).parts
        names == {q.parts[Len(root) + 1] :
                     q \in {r \in DOMAIN fs : /\ Len(r.parts) = Len(root) + 1
                                              /\ SubSeq(r.parts, 1, Len(root)) = root}}
        marked == {i \in 1..Len(Indicators) :
                     \E j \in 1..Len(Indicators[i].files) :
                        MarkerFound(Indicators[i].files[j], names)}
    IN  last.op = "detect_project_type" =>
            /\ [i \in 1..Len(Indicators) |-> Indicators[i].lang]
                  = <<"python", "javascript", "rust", "go", "java", "dotnet", "ruby", "php">>
            /\ (last.project_type = "general") <=> (marked = {})
            /\ marked # {} =>
                  /\ last.project_type = Indicators[CHOOSE i \in marked :
                                                       \A k \in marked : i <= k].lang

\* A root with the markers of javascript, rust and dotnet is javascript.
C15_Witness ==
    /\ last.op = "detect_project_type"
    /\ last.req.project_path = Root
    /\ last.project_type = "javascript"
    /\ {OsPath(P(FALSE, <<n>>)) : n \in {"package.json", "Cargo.toml", "app.csproj"}}
          \subseteq DOMAIN fs

(***************************************************************************)
(* C16: the analysis of a root that is no directory ends in an error: it   *)
(* gives no project type and no patterns.                                  *)
(***************************************************************************)
C16_MissingRootFails ==
    (/\ last.op \in {"detect_project_type", "get_tree_ignore", "analyze_project_structure"}
     /\ last.req.project_path = Missing) =>
        last.result = "error"

(***************************************************************************)
(* C17: the tiers critical, recommended and optional of an analyzed        *)
(* project share no pattern: what an earlier tier holds is in no later     *)
(* one, and nothing the analysis proposes is lost.                         *)
(***************************************************************************)
C17_TiersDisjoint ==
    (last.op = "analyze_project_structure" /\ last.result = "report") =>
        LET tiers == last.report.tiers
            c == Range(tiers.critical)
            r == Range(tiers.recommended)
            o == Range(tiers.optional)
        IN  /\ c \cap r = {}
            /\ c \cap o = {}
            /\ r \cap o = {}
            /\ Cardinality(c) = Len(tiers.critical)
            /\ Range(AlwaysCritical) \cup Range(last.report.big_dirs) \subseteq c
            /\ c \cup r \cup o
                  = Range(AlwaysCritical) \cup Range(last.report.big_dirs)
                    \cup Range(EcosystemPatterns(last.report.project_type))
                    \cup Range(HygienePatterns)

\* A javascript project with a large node_modules: the directory is critical
\* and is no longer recommended.
C17_Witness ==
    /\ last.op = "analyze_project_structure"
    /\ last.result = "report"
    /\ last.report.project_type = "javascript"
    /\ "node_modules" \in Range(last.report.big_dirs)
    /\ "node_modules" \in Range(last.report.tiers.critical)
    /\ "node_modules" \notin Range(last.report.tiers.recommended)

(***************************************************************************)
(* The request of the last prepare_context, as the sections of a document  *)
(* show it.                                                                *)
(***************************************************************************)
DocumentWritten ==
    /\ last.op = "prepare_context"
    /\ last.stage \in {"ok", "after_write_failed"}

RequestedFiles ==
    IF last.server = "mcp_server"
    THEN [i \in 1..Len(last.req.files) |->
            [path |-> last.req.files[i].path, note |-> DictGet(last.req.files[i], "note")]]
    ELSE [i \in 1..Len(last.req.files) |->
            [path |-> FixPath(Get(CoerceFileSpec(last.req.files[i]).path)),
             note |-> CoerceFileSpec(last.req.files[i]).note]]

RequestedDumps ==
    IF last.server = "mcp_server"
    THEN [i \in 1..Len(last.req.context_dumps) |->
            [file |-> last.req.context_dumps[i].file,
             title |-> DictGet(last.req.context_dumps[i], "title")]]
    ELSE [i \in 1..Len(last.req.context_dumps) |->
            [file |-> Get(CoerceDumpSpec(last.req.context_dumps[i]).file),
             title |-> CoerceDumpSpec(last.req.context_dumps[i]).title]]

RequestedNotes == [i \in 1..Len(last.req.general_notes) |-> [text |-> last.req.general_notes[i]]]

RequestedNoteFiles ==
    IF last.server = "mcp_server" THEN <<>>
    ELSE [i \in 1..Len(last.req.general_note_files) |->
            OsPath(FixPath(last.req.general_note_files[i]))]

\* The sections of the document are the tree, the files as requested, the
\* requested dumps and then dumps of the project's defaults, and the notes
\* as requested and then the contents of the note files `appended`.
SectionsInOrder(appended) ==
    LET doc == last.doc
        dumps == doc[3].items
        notes == doc[4].items
        nd == Len(RequestedDumps)
        nn == Len(RequestedNotes)
    IN  /\ [i \in 1..Len(doc) |-> doc[i].section] = <<"tree", "files", "dumps", "notes">>
        /\ doc[2].items = RequestedFiles
        /\ Len(dumps) >= nd
        /\ SubSeq(dumps, 1, nd) = RequestedDumps
        /\ \A i \in (nd + 1)..Len(dumps) :
              \E j \in 1..Len(Persisted(last.cfgBefore).default_context_dumps) :
                 Persisted(last.cfgBefore).default_context_dumps[j].file = dumps[i].file
        /\ Len(notes) = nn + Len(appended)
        /\ SubSeq(notes, 1, nn) = RequestedNotes
        /\ \A i \in 1..Len(appended) : notes[nn + i].content_of = appended[i]

(***************************************************************************)
(* C20: a written document holds the tree, the files in the order of the   *)
(* request with their notes, the dumps of the request in their order       *)
(* before any default dump, and the general notes in their order followed  *)
(* by the contents of the general_note_files that could be read, in their  *)
(* order.                                                                  *)
(***************************************************************************)
C20_SectionsOfReadable ==
    DocumentWritten =>
        SectionsInOrder(SelectSeq(RequestedNoteFiles, LAMBDA q : q \in DOMAIN fs))

\* C20 as stated: every note file of the request is in the document.
C20_SectionsOfRequested ==
    DocumentWritten => SectionsInOrder(RequestedNoteFiles)

\* A document of two files, two dumps, two notes and a note file, from a
\* request that also names a note file that does not exist.
C20_Witness ==
    /\ DocumentWritten
    /\ last.server = "fastmcp"
    /\ last.req.general_note_files = <<NoteY, NoteX>>
    /\ Len(last.doc[2].items) = 2
    /\ Len(last.doc[3].items) = 2
    /\ Len(last.doc[4].items) = 3
    /\ last.doc[4].items[3].content_of = OsPath(PathJoin(Root, NoteX))

(***************************************************************************)
(* The pattern utilities on their own: split_patterns after join_patterns  *)
(* on every short sequence of patterns, and split_patterns on texts.       *)
(***************************************************************************)
\* The longest sequence of patterns.
MaxPatterns == 3

\* The patterns are an empty one, patterns that differ in case and in
\* blanks, and one that holds the delimiter.
PatternInit ==
    /\ cfgFile = NoFile
    /\ fs = <<>>
    /\ docs = <<>>
    /\ dirs = {}
    /\ clock = 0
    /\ nOk = 0
    /\ cfgFault = FALSE
    /\ last \in {[op |-> "patterns", patterns |-> p] :
                    p \in UNION {[1..n -> {"", "a", " A ", "b", "a|b"}] : n \in 0..MaxPatterns}}
                \cup {[op |-> "text", text |-> s] : s \in {"", "a", "a|b", " a ||A", "|"}}

\* split_patterns(join_patterns(patterns)) and normalize_patterns(patterns)
SplitJoin ==
    /\ last.op = "patterns"
    /\ last' = [op |-> "split_join", patterns |-> last.patterns,
                joined |-> join_patterns(last.patterns),
                split |-> split_patterns(join_patterns(last.patterns)),
                normalized |-> normalize_patterns(last.patterns)]
    /\ UNCHANGED <<cfgFile, fs, docs, dirs, clock, nOk, cfgFault>>

\* split_patterns(text)
SplitText ==
    /\ last.op = "text"
    /\ last' = [op |-> "split", text |-> last.text, split |-> split_patterns(last.text)]
    /\ UNCHANGED <<cfgFile, fs, docs, dirs, clock, nOk, cfgFault>>

PatternNext == SplitJoin \/ SplitText

PatternSpec == PatternInit /\ [][PatternNext]_vars

(***************************************************************************)
(* C18: split(join(patterns)) is normalize(patterns) for every sequence of *)
(* patterns none of which holds the delimiter '|'; split("") is the empty  *)
(* sequence and the join of the empty sequence is the empty string.        *)
(***************************************************************************)
HoldsPipe(p) == \E i \in 1..Len(p) : CharAt(p, i) = "|"

AssemblerOut == P(FALSE, <<"out.md">>)

AssemblerInit ==
    /\ cfgFile = NoFile
    /\ fs = [p \in {OsPath(MainPy), OsPath(NoteX)} |-> [mtime |-> 0]]
    /\ docs = <<>>
    /\ dirs = {}
    /\ clock = 0
    /\ nOk = 0
    /\ cfgFault = FALSE
    /\ last = [op |-> "created", prep |-> LLMContextPrep, prepBefore |-> LLMContextPrep,
               out |-> <<>>, prevOut |-> <<>>, afterRender |-> FALSE]

\* A call that fills the assembler, or fails and leaves it as it was.
Accumulate(op, prep) ==
    /\ clock < MaxClock
    /\ clock' = clock + 1
    /\ last' = [op |-> op, prep |-> prep, prepBefore |-> last.prep,
                out |-> <<>>, prevOut |-> last.out, afterRender |-> FALSE]
    /\ UNCHANGED <<cfgFile, fs, docs, dirs, nOk, cfgFault>>

AssemblerAddFile(path, note) ==
    IF Readable(path) THEN Accumulate("add_file", AddFile(last.prep, path, note))
    ELSE Accumulate("add_file_failed", last.prep)

AssemblerAddDump(file, title) ==
    IF Readable(file)
    THEN Accumulate("add_context_dump_from_file", AddContextDump(last.prep, file, title))
    ELSE Accumulate("add_context_dump_failed", last.prep)

AssemblerAddNote(text) ==
    Accumulate("add_general_note", AddGeneralNote(last.prep, [text |-> text]))

\* prep.set_ignore(patterns): the pattern string, normalized
AssemblerSetIgnore(patterns) ==
    Accumulate("set_ignore",
               [last.prep EXCEPT !.tree_ignore = join_patterns(split_patterns(patterns))])

AssemblerRender ==
    /\ \E r \in {RenderCall(last.prep)} :
          last' = [op |-> "render", prep |-> r.prep, prepBefore |-> last.prep,
                   out |-> r.out, prevOut |-> last.out,
                   afterRender |-> last.op \in {"render", "save"}]
    /\ UNCHANGED <<cfgFile, fs, docs, dirs, clock, nOk, cfgFault>>

AssemblerSave ==
    /\ \E s \in {RenderCall(last.prep)} :
          /\ last' = [op |-> "save", prep |-> s.prep, prepBefore |-> last.prep,
                      out |-> s.out, prevOut |-> last.out,
                      afterRender |-> last.op \in {"render", "save"}]
          /\ docs' = [p \in DOMAIN docs \cup {OsPath(AssemblerOut)} |->
                        IF p = OsPath(AssemblerOut) THEN [written_at |-> clock] ELSE docs[p]]
    /\ dirs' = dirs \cup {OsPath(Parent(AssemblerOut))}
    /\ UNCHANGED <<cfgFile, fs, clock, nOk, cfgFault>>

AssemblerNext ==
    \/ \E path \in {MainPy, GonePy}, note \in {None, Some("entry point")} :
          AssemblerAddFile(path, note)
    \/ \E file \in {NoteX, NoteY} : AssemblerAddDump(file, None)
    \/ \E text \in {"a note", "b note"} : AssemblerAddNote(text)
    \/ \E patterns \in {"*.tmp", " *.o ||*.O"} : AssemblerSetIgnore(patterns)
    \/ AssemblerRender
    \/ AssemblerSave

AssemblerSpec == AssemblerInit /\ [][AssemblerNext]_vars

PathArgs ==
    {P(FALSE, <<"main.py">>),
     P(FALSE, <<"..", "etc", "passwd">>),
     P(TRUE, <<"proj", "main.py">>),
     P(TRUE, <<"proj", "..", "etc", "passwd">>),
     P(TRUE, <<"etc", "passwd">>),
     P(TRUE, <<"gone">>)}

PathInit ==
    /\ \E inside \in SUBSET {P(TRUE, <<"proj", "etc", "passwd">>)} :
          fs = [q \in {OsPath(MainPy), P(TRUE, <<"etc", "passwd">>)} \cup inside |->
                  [mtime |-> 0]]
    /\ cfgFile = NoFile
    /\ docs = <<>>
    /\ dirs = {}
    /\ clock = 0
    /\ last = [op |-> "none"]
    /\ nOk = 0
    /\ cfgFault = FALSE

\* A call of _fix_path(project_path, p)
ResolvePath(p) ==
    /\ last' = [op |-> "fix_path", req |-> [path |-> p], resolved |-> FixPath(p)]
    /\ UNCHANGED <<cfgFile, fs, docs, dirs, clock, nOk, cfgFault>>

PathNext ==
    \/ \E p \in PathArgs : ResolvePath(p)
    \/ \E p \in PathArgs, dr \in BOOLEAN :
          FastPrepareContext(FastReq(<<FileSpec(p, None)>>, <<>>, <<>>, <<>>, OutMd, None, dr),
                             TRUE, "written")
    \/ \E p \in PathArgs :
          PrepareContext(Req(<<[path |-> p]>>, <<>>, <<>>, OutMd, None), TRUE, "written")

PathSpec == PathInit /\ [][PathNext]_vars

(***************************************************************************)
(* C21: no prepare_context reads a file outside the project root into the  *)
(* document or lists one in its manifest of included files.                *)
(***************************************************************************)
C21_NoFileOutsideRoot ==
    (last.op = "prepare_context" /\ last.doc # <<>>) =>
        /\ \A i \in 1..Len(last.doc[2].items) :
              IsRelativeTo(OsPath(last.doc[2].items[i].path), Root)
        /\ last.manifest # <<>> =>
              \A i \in 1..Len(last.manifest[1]) :
                 IsRelativeTo(OsPath(last.manifest[1][i]), Root)

(***************************************************************************)
(* C23: _fix_path follows the four cases: a relative path is joined to the *)
(* root; an absolute path that starts with the root is kept; an absolute   *)
(* path that does not is re-rooted when the re-rooted path exists, and is  *)
(* kept otherwise.  In the first three cases the result starts with the    *)
(* parts of the root.                                                      *)
(***************************************************************************)
FixPathCases(under) ==
    LET p == last.req.path
        res == last.resolved
        rerooted == P(TRUE, Root.parts \o p.parts)
        starts == p.abs /\ Len(p.parts) >= Len(Root.parts)
                        /\ SubSeq(p.parts, 1, Len(Root.parts)) = Root.parts
        there == OsPath(rerooted) \in DOMAIN fs \cup DOMAIN docs \cup dirs
    IN  last.op = "fix_path" =>
            /\ ~p.abs => res = rerooted
            /\ starts => res = p
            /\ (p.abs /\ ~starts /\ there) => res = rerooted
            /\ (p.abs /\ ~starts /\ ~there) => res = p
            /\ (~p.abs \/ starts \/ there) => under

C22_SetConfigFrame ==
    (last.op = "set_project_config" /\ last.cfgWrite = "written") =>
        LET before == Persisted(last.cfgBefore)
            after == Persisted(cfgFile)
            given(arg, field) == IF IsNone(arg) THEN before[field] ELSE Get(arg)
        IN  /\ after.tree_ignore = given(last.req.tree_ignore, "tree_ignore")
            /\ after.output_dir = given(last.req.default_output_dir, "output_dir")
            /\ after.default_context_dumps
                  = given(last.req.default_context_dumps, "default_context_dumps")
            /\ after.recent_contexts = before.recent_contexts
            /\ PersistedHistory(cfgFile) = PersistedHistory(last.cfgBefore)

(***************************************************************************)
(* C26: the persisted tree_ignore is always normalized: cut at '|' it      *)
(* holds no empty pattern and no two patterns that are equal ignoring      *)
(* case.                                                                   *)
(***************************************************************************)
C26_PersistedIgnoreNormalized ==
    LET parts == IF Persisted(cfgFile).tree_ignore = "" THEN <<>>
                 ELSE SplitPipe(Persisted(cfgFile).tree_ignore)
    IN  /\ \A i \in 1..Len(parts) : parts[i] # ""
        /\ \A i, j \in 1..Len(parts) : Lower(parts[i]) = Lower(parts[j]) => i = j

(***************************************************************************)
(* C27: the tree of a prepare_context document is drawn under the          *)
(* request's tree_ignore when the request gives one, the empty string      *)
(* included, and under the stored tree_ignore otherwise, in both           *)
(* front-ends alike.                                                       *)
(***************************************************************************)
C27_EffectiveIgnore ==
    (last.op = "prepare_context" /\ last.stage \in {"ok", "dry_run"}) =>
        last.doc[1].ignore = IF IsNone(last.req.tree_ignore)
                             THEN Persisted(last.cfgBefore).tree_ignore
                             ELSE Get(last.req.tree_ignore)

(***************************************************************************)
(* C28: a prepare_context that is no dry run has written the document      *)
(* exactly when it reports success and its entry is the first of the       *)
(* persisted recent_contexts.                                              *)
(***************************************************************************)
C28_DocumentIffRecorded ==
    (last.op = "prepare_context" /\ last.stage # "dry_run") =>
        LET written == /\ OsPath(last.outPath) \in DOMAIN docs
                       /\ docs[OsPath(last.outPath)].written_at = clock
            recent == Persisted(cfgFile).recent_contexts
            recorded == /\ recent # <<>>
                        /\ recent[1].timestamp = clock
                        /\ PathJoin(Root, recent[1].output) = last.outPath
        IN  written <=> (last.result = "saved" /\ recorded)

(***************************************************************************)
(* C29: no operation changes the persisted tree_ignore without recording   *)
(* it: when tree_ignore differs from what it was before the operation, the *)
(* newest tree_ignore_history entry is new and holds the new tree_ignore.  *)
(***************************************************************************)
C29_IgnoreChangesAreLogged ==
    (/\ last.op # "none"
     /\ Persisted(cfgFile).tree_ignore # Persisted(last.cfgBefore).tree_ignore) =>
        /\ PersistedHistory(cfgFile) # PersistedHistory(last.cfgBefore)
        /\ PersistedHistory(cfgFile) # <<>>
        /\ PersistedHistory(cfgFile)[1].patterns = Persisted(cfgFile).tree_ignore

(***************************************************************************)
(* C25: a write of the configuration file is all or nothing: after an      *)
(* operation that saves it, the file is what it was before the operation   *)
(* or a complete JSON record, never a truncated or partial one.            *)
(***************************************************************************)
C25_ConfigWriteAllOrNothing ==
    (last.op \in {"set_project_config", "prepare_context"}) =>
        \/ cfgFile = last.cfgBefore
        \/ cfgFile.kind = "json"

(***************************************************************************)
(* C30: suggest_ignore_patterns is a function of the project's contents:   *)
(* a call returns the string that the call before it returned for the same *)
(* root with the same files.                                               *)
(***************************************************************************)
C30_SuggestionDeterministic ==
    (/\ last.op = "detect_project_type"
     /\ ~IsNone(last.previous)) =>
        last.suggestion.joined = Get(last.previous)

\* C30, the part that holds: at most 15 patterns, none twice, the six of a
\* python or javascript project first.
C30_SuggestionShape ==
    (last.op = "detect_project_type") =>
        LET s == last.suggestion.patterns
        IN  /\ Len(s) <= SuggestLimit
            /\ \A i, j \in 1..Len(s) : s[i] = s[j] => i = j
            /\ last.project_type \in {"python", "javascript"} =>
                  /\ Len(last.suggestion.leading) = 6
                  /\ SubSeq(s, 1, 6) = last.suggestion.leading
            /\ last.suggestion.joined = JoinPipe(s)

(***************************************************************************)
(* Two prepare_context requests of two sessions on one project, each in    *)
(* two steps: the load of the configuration at the start of the handler,   *)
(* and the rest of it (the document is written, the entry is put in front  *)
(* of the loaded recent_contexts, the configuration is saved). `last`      *)
(* holds what each session has loaded, the entries of the requests that    *)
(* reported success, and whether two requests ever overlapped.             *)
(***************************************************************************)
SessionInit ==
    /\ cfgFile = NoFile
    /\ fs = [p \in {OsPath(MainPy)} |-> [mtime |-> 0]]
    /\ docs = <<>>
    /\ dirs = {}
    /\ clock = 0
    /\ nOk = 0
    /\ cfgFault = FALSE
    /\ last = [op |-> "session",
               sessions |-> [s \in {1, 2} |-> [pc |-> "idle", config |-> ProjectConfig]],
               reported |-> <<>>, interleaved |-> FALSE]

SessionNext ==
    \* config = load_project_config(project_path)
    \/ \E s \in {1, 2} :
          /\ last.sessions[s].pc = "idle"
          /\ clock + Cardinality({r \in {1, 2} : last.sessions[r].pc = "loaded"}) <= MaxClock
          /\ last' = [last EXCEPT
                        !.sessions[s] = [pc |-> "loaded", config |-> LoadProjectConfig(cfgFile)],
                        !.interleaved = @ \/ \E r \in {1, 2} : last.sessions[r].pc = "loaded"]
          /\ UNCHANGED <<cfgFile, fs, docs, dirs, clock, nOk, cfgFault>>
    \* prep.save(...); config.recent_contexts.insert(0, ...);
    \* save_project_config(project_path, config); the success message
    \/ \E s \in {1, 2}, name \in {"a.md", "b.md"} :
          LET outDir == PathJoin(Root, last.sessions[s].config.output_dir)
              outPath == PathJoin(outDir, P(FALSE, <<name>>))
              entry == [timestamp |-> clock + 1,
                        output |-> RelativeTo(outPath, Root),
                        description |-> <<1, 0>>]
              config == RecordGeneration(last.sessions[s].config, entry)
          IN  /\ last.sessions[s].pc = "loaded"
              /\ clock' = clock + 1
              /\ docs' = DocsAfter("ok", outPath, clock + 1)
              /\ dirs' = DirsAfter("ok", outDir, outPath)
              /\ cfgFile' = SaveProjectConfig(cfgFile, config, "written")
              /\ nOk' = nOk + 1
              /\ last' = [last EXCEPT
                            !.sessions[s] = [pc |-> "idle", config |-> config],
                            !.reported = Append(@, entry)]
              /\ UNCHANGED <<fs, cfgFault>>

SessionSpec == SessionInit /\ [][SessionNext]_vars

(***************************************************************************)
(* C24: when no two requests overlap, the entry of every request that      *)
(* reported success is in the persisted recent_contexts (fewer than 20     *)
(* requests are made, so none is evicted).                                 *)
(***************************************************************************)
C24_NoEntryLostWithoutInterleaving ==
    (last.op = "session" /\ ~last.interleaved) =>
        \A i \in 1..Len(last.reported) :
            last.reported[i] \in Range(Persisted(cfgFile).recent_contexts)

\* C24, the part that holds: the file is what the last writer saved, the
\* newest reported entry in front of what that writer had loaded.
C24_LastWriterWins ==
    (last.op = "session" /\ last.reported # <<>>) =>
        /\ Persisted(cfgFile).recent_contexts # <<>>
        /\ Persisted(cfgFile).recent_contexts[1] = last.reported[Len(last.reported)]

====
